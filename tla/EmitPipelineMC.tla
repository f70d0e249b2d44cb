--------------------------- MODULE EmitPipelineMC ---------------------------
(***************************************************************************)
(* Instances of EmitPipeline for TLC: a JSONL file and the console as      *)
(* sinks, two signing keys, and the configure() calls that matter.         *)
(***************************************************************************)
EXTENDS EmitPipeline, TLC

CONSTANTS File, Console, k1, k2

MCEndpoints == {File, Console}
MCFiles     == {File}
MCKeys      == {k1, k2}

(* Change the sink; change sink and key; stop signing; turn the store on   *)
(* and then fail on an unknown keyword.                                    *)
MCUpdates ==
  { {<<"endpoint", Console>>},
    {<<"endpoint", File>>, <<"key", k2>>},
    {<<"key", NoKey>>},
    {<<"endpoint", Console>>, Unknown} }

(* A re-configuration that changes nothing but the key.                    *)
KeyUpdates == {{<<"key", k2>>}}

(* One key is enough to ask whether a call returns.                        *)
LiveKeys == {k2}

(* Change sink and key, or turn the console on and then fail.              *)
LiveUpdates ==
  { {<<"endpoint", File>>, <<"key", k2>>}, {<<"endpoint", Console>>, Unknown} }

Symmetry == Permutations(Threads)
=============================================================================
