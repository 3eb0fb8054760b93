--------------------------------- MODULE MCGui ---------------------------------
(***************************************************************************)
(* Versions of one to three parts around a release, and the days where the *)
(* calendar is odd: around the ends of months and years, leap days and the *)
(* years 2000 and 2100.  Updates are checked for on one day, and the days  *)
(* are gone through with one build.                                        *)
(***************************************************************************)
EXTENDS Gui

SomeVersions ==
  {[parts |-> p, pre |-> b] :
     p \in {<<0, 1>>, <<0, 1, 0>>, <<0, 1, 5>>, <<0, 1, 10>>, <<0, 2>>, <<1>>}, b \in BOOLEAN}
Build == [parts |-> <<0, 1, 5>>, pre |-> FALSE]

Today    == 20601
SomeDays == {Today, 0, 30, 58, 364, 788, 789, 10956, 11015, 11016, 20514, 47539, 47540, 47846}

Apart == IF first = Today THEN day' = day ELSE offer' = NoOffer

MCSpec ==
  /\ GuiInit /\ (current = Build \/ (first = Today /\ current.parts # <<0, 1, 0>>))
  /\ [][GuiNext /\ Apart]_guiVars
  /\ WF_guiVars(Run /\ UNCHANGED deskVars) /\ WF_guiVars(Notify /\ UNCHANGED deskVars)
=============================================================================
