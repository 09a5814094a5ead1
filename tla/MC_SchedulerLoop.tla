-------------------------- MODULE MC_SchedulerLoop --------------------------
(* Pod sets for the runs of SchedulerLoop: app and user ids are strings of *)
(* one-character strings, "r" standing for the user "root".                *)
EXTENDS SchedulerLoop

CONSTANTS n1, n2

MCNodes == {n1, n2}
MCRoot == <<"r">>

Pod(app, user, index, ports, image) ==
    [app |-> app, user |-> user, index |-> index, ports |-> ports,
     image |-> image, http |-> TRUE]

(* Two apps named "a", of root and of user "u", with their own port windows. *)
PodsDistinct == {Pod(<<"a">>, MCRoot, 1, 2, TRUE), Pod(<<"a">>, <<"u">>, 2, 100, TRUE)}

(* Root's app "a_u" and user u's app "a": both get the host "a_u.*".      *)
PodsCollide == {Pod(<<"a", "_", "u">>, MCRoot, 1, 1, TRUE), Pod(<<"a">>, <<"u">>, 2, 1, TRUE)}

=============================================================================
