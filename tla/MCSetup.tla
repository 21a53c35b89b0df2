------------------------------- MODULE MCSetup -------------------------------
(* The instances of Setup that TLC checks: a machine with one accelerator. The  *)
(* ladder prefers its runtime; findLlamaServer meets the CPU one first, because *)
(* it sorts the directories of the prebuilt runtimes by name.                   *)
EXTENDS Setup

LadderOfTwo == <<"cuda", "cpu">>
PrebuiltOfTwo == <<"cpu", "cuda">>

\* One model where setup would put it, the other on another disk.
KnownPaths == {<<"models", "m1">>, <<"other", "m2">>}
=============================================================================
