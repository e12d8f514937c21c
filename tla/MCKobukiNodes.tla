--------------------------- MODULE MCKobukiNodes ---------------------------
(***************************************************************************)
(* Instance of KobukiNodes for TLC: two bumpers, a cliff sensor and a      *)
(* wheel in front of the safety controller, a bumper, a cliff sensor and   *)
(* both wheels in front of the walker.                                     *)
(***************************************************************************)
EXTENDS KobukiNodes

SafetySets == SUBSET {<<"bumper", "left">>, <<"bumper", "center">>}
              \cup {{<<"cliff", "right">>},
                    {<<"wheel", "left">>, <<"bumper", "left">>}}
WalkerSets == SUBSET {<<"wheel", "left">>, <<"wheel", "right">>}
              \cup {{<<"bumper", "left">>}, {<<"cliff", "center">>}}
CloudSets  == SUBSET {<<"bumper", "left">>, <<"cliff", "left">>,
                      <<"cliff", "center">>, <<"bumper", "right">>,
                      <<"wheel", "left">>}

=============================================================================
