------------------------------ MODULE MCDaemon ------------------------------
(***************************************************************************)
(* Daemon for TLC: one or two clients, and sets of requests small enough   *)
(* to let every interleaving of them happen.                               *)
(***************************************************************************)
EXTENDS Daemon, TLC

CONSTANTS d, v, z   \* the default, another value, the sleep animation

Set(f, x) == [op |-> "set", field |-> f, value |-> x]
Do(o)     == [NoRequest EXCEPT !.op = o]

(* Two settings that the service listener reads back register by register. *)
ReadableSetters == {Set("kbd", v), Set("charge", v)}

(* And the two that share a register on the N155D.                         *)
AliasedSetters == ReadableSetters \cup {Set("led", v), Set("fan_cpu", v)}

(* Setters and commands, those that fail and those that change the process *)
(* besides STATE and the file among them.                                  *)
Everything ==
  {Set("kbd", v), Set("fan_cpu", v), Set("fan_gpu", OutOfRange),
   Do("defaults"), Do("apply"), Do("telemetry_on"), Do("telemetry_off")}

(* A setter, a getter, a command that keeps the guard long, and a panic.   *)
Contending == {Set("kbd", v), Do("get"), Do("defaults"), Do("todo")}

NoEvents   == {}
Wakes      == {"wake"}
Hibernates == {"hibernate"}
SleepWake  == {"sleep", "wake"}

Symmetry == Permutations(Conns)
=============================================================================
