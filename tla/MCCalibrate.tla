---------------------------- MODULE MCCalibrate ----------------------------
(* The instances of Calibrate that TLC checks. *)
EXTENDS Calibrate

\* Cards of 4 and 8 GiB, one of one pool, and a machine without a card.
MCMachines == {
    [total |-> 64, ram |-> 256, cores |-> 8, unified |-> FALSE],
    [total |-> 128, ram |-> 256, cores |-> 8, unified |-> FALSE],
    [total |-> 128, ram |-> 128, cores |-> 2, unified |-> TRUE],
    [total |-> 0, ram |-> 128, cores |-> 1, unified |-> FALSE]}

MCModels == {
    [moe |-> moe, layers |-> 8, per |-> per, real |-> per - 2, kv |-> kv,
     trained |-> 16, header |-> header] :
        moe \in BOOLEAN, per \in {6, 10}, kv \in {1, 2}, header \in BOOLEAN}
=============================================================================
