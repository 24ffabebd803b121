------------------------------ MODULE MCVmDir -------------------------------
(* VmDir on small instances; the calls are interchangeable.                *)
EXTENDS VmDir, TLC

CallSymmetry == Permutations(Calls)

(* What provisions are given; 8 GiB do not fit in Word.                    *)
SomeAsked == {<<{"data"}, 1>>, <<{"cidata"}, 8>>}

(* What begins while what runs.                                            *)
SomeJoins ==
  {<<"create", "create">>, <<"create", "delete">>, <<"delete", "create">>,
   <<"attach", "detach">>, <<"attach", "provision">>}
=============================================================================
