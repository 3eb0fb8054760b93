----------------------------- MODULE MCIpcClients -----------------------------
(***************************************************************************)
(* Releases that differ from 1.0.0 in patch, minor and major version.      *)
(***************************************************************************)
EXTENDS IpcClients

SomeVersions == {<<1, 0, 0>>, <<1, 0, 1>>, <<1, 1, 0>>, <<2, 0, 0>>}
=============================================================================
