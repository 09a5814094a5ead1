---------------------------- MODULE SchedulerLoop ----------------------------
(***************************************************************************)
(* The scheduler service of kernel/scheduler (main.rs, app.rs): every      *)
(* iteration of schedule_loop dumps the system config, builds a            *)
(* PodScheduler from that snapshot, turns the actions it returns into one  *)
(* key-value transaction (schedule_action_to_tx_actions, app.rs) and runs *)
(* it with exec_tx.  Users install and remove apps concurrently.           *)
(*                                                                         *)
(* The store keeps what the loop writes: the app instances in              *)
(* nodes/<n>/config (their host ports) and the host routes of              *)
(* nodes/<n>/gateway (their upstream port).  PodScheduler::schedule and    *)
(* the config client live outside src/: schedule returns any list of the   *)
(* actions its inputs allow, exec_tx applies a transaction whole or fails. *)
(***************************************************************************)
EXTENDS Naturals, Sequences, FiniteSets, SequencesExt, TLC

CONSTANTS
    Nodes,          \* devices/<n>/info entries of the zone
    Pods,           \* app pods: [app, user, index, ports, image, http]
    RootUser,       \* the user id "root"
    IsBoot,         \* started with --boot: one iteration, then return
    RpcMayFail,     \* whether dump_configs_for_scheduler / exec_tx may fail
    MaxSteps        \* bound on the loop iterations explored

ASSUME SchedulerAssumption ==
    /\ IsBoot \in BOOLEAN
    /\ RpcMayFail \in BOOLEAN /\ MaxSteps \in Nat

(* app_prefix of the gateway host: "{app_id}.*" for root,                  *)
(* "{app_id}_{user_id}.*" for any other user.                              *)
AppPrefix(p) ==
    IF p.user = RootUser THEN p.app \o <<".", "*">>
    ELSE p.app \o <<"_">> \o p.user \o <<".", "*">>

(* build_app_service_config: real_port: u16 starts at 20080 + app_index *  *)
(* 100 and grows by one per tcp port (modulo 2^16 in a release build).     *)
U16 == 2^16

(* Mutant: the port window does not move with app_index.                   *)
FirstPortNoStride(p) == 20080 + p.index

FirstPort(p) == 20080 + p.index * 100
HostPorts(p) == {(FirstPort(p) + k) % U16 : k \in 0..(p.ports - 1)}

(* get_http_port of the instance config: the host port of its first tcp  *)
(* port, when the app serves http.                                         *)
HttpPort(p) == FirstPort(p) % U16

(* build_app_service_config returns an error: no docker image for the      *)
(* node's arch, or app_index > 400.                                        *)
BuildFails(p) == ~p.image \/ p.index > 400

VARIABLES
    installed,      \* pods whose users/<u>/apps/<a>/config exists
    node_apps,      \* node |-> (pod |-> host ports) of its /apps entries
    gateway,        \* node |-> (prefix |-> upstream port) of its hosts
    spc,            \* "sleep", "dumped", "computed", "exited", "done"
    snap,           \* the pods of the last dump
    tx,             \* the transaction computed from it: a list of writes
    step,           \* loop_step
    committed,      \* whether the last exec_tx was applied
    boot_ret        \* what schedule_loop(true) returned: "none" or "ok"

vars == <<installed, node_apps, gateway, spc, snap, tx, step, committed, boot_ret>>

Init ==
    /\ installed \in SUBSET Pods
    /\ node_apps = [n \in Nodes |-> <<>>]
    /\ gateway = [n \in Nodes |-> <<>>]
    /\ spc = "sleep"
    /\ snap = {}
    /\ tx = <<>>
    /\ step = 0
    /\ committed = FALSE
    /\ boot_ret = "none"

(* A user installs or removes an app: its config key appears or goes.      *)
InstallApp(p) ==
    /\ p \notin installed
    /\ installed' = installed \cup {p}
    /\ UNCHANGED <<node_apps, gateway, spc, snap, tx, step, committed, boot_ret>>

RemoveApp(p) ==
    /\ p \in installed
    /\ installed' = installed \ {p}
    /\ UNCHANGED <<node_apps, gateway, spc, snap, tx, step, committed, boot_ret>>

(* Sleep 5 s, loop_step += 1, dump_configs_for_scheduler: on an error the  *)
(* iteration is skipped (continue).                                        *)
Dump ==
    /\ spc = "sleep"
    /\ step < MaxSteps
    /\ step' = step + 1
    /\ \/ spc' = "dumped" /\ snap' = installed
       \/ RpcMayFail /\ UNCHANGED <<spc, snap>>
    /\ UNCHANGED <<installed, node_apps, gateway, tx, committed, boot_ret>>

(* Mutant: the gateway route is not written.                              *)
InstanceWritesNoRoute(p, n) ==
    <<[key |-> "config", node |-> n, path |-> p, val |-> HostPorts(p)]>>

(* The writes instance_app_service returns for InstancePod(pod, node):     *)
(* /apps/<instance> of nodes/<n>/config, and the host route of             *)
(* nodes/<n>/gateway when the app serves http.                             *)
InstanceWrites(p, n) ==
    <<[key |-> "config", node |-> n, path |-> p, val |-> HostPorts(p)]>>
    \o (IF p.http
        THEN <<[key |-> "gateway", node |-> n, path |-> AppPrefix(p), val |-> HttpPort(p)]>>
        ELSE <<>>)

(* create_scheduler_by_input_config: a node per devices/<n>/info, a pod    *)
(* per users/<u>/apps/<a>/config of the dump, and no pod instance (the     *)
(* branch for nodes/<n>/config adds none).  PodScheduler::schedule may     *)
(* place any of these pods on any of these nodes.                          *)
Candidates == snap \X Nodes

(* schedule_action_to_tx_actions of InstancePod: the pod item exists (it   *)
(* was added from the same dump) and is an App, so instance_app_service.   *)
(* No instance is known, so schedule returns no RemovePodInstance or       *)
(* UpdatePodInstance, whose conversions need one.                          *)
ScheduleActionToTxActions(p, n) == InstanceWrites(p, n)

(* The rest of the iteration: schedule() and the conversion of each of its *)
(* actions in order, merged by extend_kv_action_map.  An error of          *)
(* build_app_service_config returns from schedule_loop through `?`, and   *)
(* the service exits.                                                      *)
Compute ==
    /\ spc = "dumped"
    /\ \E acts \in SetToAllKPermutations(Candidates) :
         LET fails == \E i \in DOMAIN acts : BuildFails(acts[i][1])
         IN  /\ spc' = IF fails THEN "exited" ELSE "computed"
             /\ tx' = IF fails THEN <<>>
                      ELSE FlattenSeq([i \in DOMAIN acts |->
                                         ScheduleActionToTxActions(acts[i][1], acts[i][2])])
    /\ UNCHANGED <<installed, node_apps, gateway, snap, step, committed, boot_ret>>

(* A write applied to the store: the later of two writes of one path wins. *)
ApplyWrite(st, w) ==
    IF w.key = "config"
    THEN [st EXCEPT !.na[w.node] = (w.path :> w.val) @@ @]
    ELSE [st EXCEPT !.gw[w.node] = (w.path :> w.val) @@ @]

Applied(t) ==
    LET st[i \in 0..Len(t)] ==
            IF i = 0 THEN [na |-> node_apps, gw |-> gateway] ELSE ApplyWrite(st[i - 1], t[i])
    IN  st[Len(t)]

(* exec_tx(tx_actions, None): the whole transaction, or an error that is   *)
(* only logged; then the loop sleeps again, or breaks with Ok when         *)
(* is_boot.                                                                *)
Exec ==
    /\ spc = "computed"
    /\ \/ /\ node_apps' = Applied(tx).na
          /\ gateway' = Applied(tx).gw
          /\ committed' = TRUE
       \/ /\ RpcMayFail
          /\ committed' = FALSE
          /\ UNCHANGED <<node_apps, gateway>>
    /\ IF IsBoot THEN spc' = "done" /\ boot_ret' = "ok"
       ELSE spc' = "sleep" /\ UNCHANGED boot_ret
    /\ UNCHANGED <<installed, snap, tx, step>>

Next ==
    \/ \E p \in Pods : InstallApp(p) \/ RemoveApp(p)
    \/ Dump
    \/ Compute
    \/ Exec

Spec == Init /\ [][Next]_vars

-----------------------------------------------------------------------------
(* Every app instance on a node that serves http is reachable: the node's  *)
(* gateway routes the app's host prefix to that instance's http port       *)
(* (instance_app_service writes both in one transaction).                  *)
RoutesMatchInstances ==
    \A n \in Nodes : \A p \in DOMAIN node_apps[n] :
        p.http => AppPrefix(p) \in DOMAIN gateway[n] /\ gateway[n][AppPrefix(p)] = HttpPort(p)

(* After an iteration whose transaction was applied, the instances on the  *)
(* nodes are those of the apps of its snapshot: the instance of a removed  *)
(* app is taken away (RemovePodInstance / uninstance_app_service).         *)
InstancesFollowSnapshot ==
    spc = "sleep" /\ committed => \A n \in Nodes : DOMAIN node_apps[n] \subseteq snap
=============================================================================
