----------------------------- MODULE MCV2VBridge -----------------------------
(***************************************************************************)
(* Instances of V2VBridge for TLC.  A path message is cut into two or      *)
(* three datagrams, a pose or a speed fits in one.                         *)
(***************************************************************************)
EXTENDS V2VBridge

CONSTANTS a, b, c

\* Three messages of different lengths.
MixedMessages == {a, b, c}
MixedFragCount == [m \in MixedMessages |->
                    CASE m = a -> 3 [] m = b -> 2 [] OTHER -> 1]

=============================================================================
