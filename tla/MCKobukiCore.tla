---------------------------- MODULE MCKobukiCore ----------------------------
(***************************************************************************)
(* Instance of KobukiCore for TLC.  Finder: three payloads that hold bytes *)
(* of STX.  Docking: nothing, the dock ahead, the left side of the dock.   *)
(***************************************************************************)
EXTENDS KobukiCore

FewPayloads    == {<<1>>, <<5, 1>>, <<0, 2, 3>>}
TwoSTX         == <<5, 2>>
TwoColours     == {{}, {8}, {9}}
Sees(r, m, l)  == [right |-> r, mid |-> m, left |-> l]
DockSignals    == {Sees({}, {}, {}), Sees({"NR"}, {"NC"}, {}), Sees({"NL"}, {"FL"}, {})}
SomeSpeeds     == {-4, 0, 3}
Backwards      == -2

=============================================================================
