---------------------------- MODULE MCCopierRun ----------------------------
(* Instances of CopierRun for TLC.                                         *)
EXTENDS CopierRun, TLC

AccountNames == (1 :> "1") @@ (2 :> "2") @@ (3 :> "3")
Numerals == ("1" :> 1) @@ ("2" :> 2) @@ ("02" :> 2) @@ ("3" :> 3)

Listed(a, exchange) == <<a, exchange>>
Follower(a) == Listed(a, <<"x">>)
At(k, q) == <<k, q>>

Job(o, r, as, ps, ks) ==
  [origin |-> o, run_id |-> r, accounts |-> as, positions |-> ps, known |-> ks,
   quantity |-> 2, side |-> "long", symbol |-> <<"BTC">>, risk |-> 1, leverage |-> 1,
   mode |-> IF o = "service" THEN "live" ELSE "simulated"]
Shared(r, as, ps) == Job("service", r, as, ps, {1, 2})

(* A manual dispatch; a plan for a master position of 2 units with one     *)
(* follower in step, one to reduce and one whose position is given twice;  *)
(* a plan for a flat master; runs of services with a run_id of their       *)
(* callers, that list an account twice, or on two exchanges and with an    *)
(* account that cannot be found; requests that are refused.                *)
AuditJobs ==
  {Job("manual", NoRun, <<Follower(2)>>, <<>>, {}),
   Job("plan", NoRun, <<Follower(3), Follower(1), Follower(2)>>,
       <<At("1", 3), At("2", 2), At("02", 1), At("3", 2)>>, {}),
   [Job("plan", NoRun, <<Follower(1)>>, <<>>, {}) EXCEPT !.quantity = 0],
   Shared(<<"run">>, <<Follower(1), Follower(1)>>, <<>>),
   Shared(<<"run">>, <<Listed(1, <<"y">>), Follower(1), Follower(3)>>, <<>>),
   Job("manual", NoRun, <<Follower(1), Follower(1)>>, <<>>, {}),
   Job("plan", NoRun, <<Follower(1)>>, <<At("one", 1)>>, {})}

OneJob == {Shared(<<"run">>, <<Follower(1), Follower(2)>>, <<>>)}

(* Two orders of one run for one account, and none for the separator in    *)
(* its run_id: "x|y" with the symbol "z", "x" with the symbol "y|z".       *)
CollidingJobs ==
  {[Shared(<<"run">>, <<Listed(1, <<"x", "|", "y">>)>>, <<>>) EXCEPT !.symbol = <<"z">>],
   [Shared(<<"run">>, <<Listed(1, <<"x">>)>>, <<>>) EXCEPT !.symbol = <<"y", "|", "z">>]}

ReduceJob == {Job("service", <<"run">>, <<Follower(1)>>, <<At("1", 3)>>, {1})}
=============================================================================
