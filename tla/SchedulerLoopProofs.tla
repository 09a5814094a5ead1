------------------------ MODULE SchedulerLoopProofs ------------------------
(***************************************************************************)
(* Proofs about the port layout of the scheduler (app.rs,                  *)
(* build_app_service_config): the tcp ports of an app instance are the    *)
(* window starting at 20080 + app_index * 100, one port per declared      *)
(* port, in u16.  Nothing in app.rs bounds the number of ports of an app  *)
(* or makes app indices distinct; the theorem says exactly when two       *)
(* windows meet.                                                           *)
(***************************************************************************)
EXTENDS SchedulerLoop, TLAPS

(* A natural number below 2^16 is its own u16 value.                      *)
LEMMA U16Small ==
    ASSUME NEW x \in Nat, x < 65536
    PROVE  x % 65536 = x
OBVIOUS

(* For two apps that pass the app_index check of line 23 (index at most   *)
(* 400), p's index not above q's, whose port loops do not overflow u16    *)
(* (real_port += 1 stays below 2^16, app.rs:28-32): their host ports meet *)
(* if and only if both declare a port and p declares more ports than the  *)
(* 100 * (q.index - p.index) between the two window starts.  Equal app    *)
(* indices collide on the first port; an app with more than 100 ports     *)
(* runs into the window of the next index.                                 *)
THEOREM PortWindowsCollide ==
    ASSUME NEW p, NEW q,
           p.index \in Nat, p.index <= 400, q.index \in Nat, q.index <= 400,
           p.index <= q.index,
           p.ports \in Nat, q.ports \in Nat,
           FirstPort(p) + p.ports < U16, FirstPort(q) + q.ports < U16
    PROVE  HostPorts(p) \cap HostPorts(q) # {}
               <=> p.ports > 0 /\ q.ports > 0 /\ (q.index - p.index) * 100 < p.ports
<1>. DEFINE d == q.index - p.index
<1>1. /\ U16 = 65536
      /\ FirstPort(p) = 20080 + p.index * 100
      /\ FirstPort(q) = 20080 + q.index * 100
  BY DEF U16, FirstPort
<1>2. /\ d \in Nat
      /\ FirstPort(p) \in Nat /\ FirstPort(q) \in Nat
      /\ FirstPort(q) = FirstPort(p) + d * 100
  BY <1>1
<1>3. \A k \in 0..(p.ports - 1) : (FirstPort(p) + k) % U16 = FirstPort(p) + k
  <2>. SUFFICES ASSUME NEW k \in 0..(p.ports - 1)
                PROVE  (FirstPort(p) + k) % U16 = FirstPort(p) + k
    OBVIOUS
  <2>1. FirstPort(p) + k \in Nat /\ FirstPort(p) + k < 65536
    BY <1>1, <1>2
  <2>. QED  BY <1>1, <2>1, U16Small
<1>4. \A l \in 0..(q.ports - 1) : (FirstPort(q) + l) % U16 = FirstPort(q) + l
  <2>. SUFFICES ASSUME NEW l \in 0..(q.ports - 1)
                PROVE  (FirstPort(q) + l) % U16 = FirstPort(q) + l
    OBVIOUS
  <2>1. FirstPort(q) + l \in Nat /\ FirstPort(q) + l < 65536
    BY <1>1, <1>2
  <2>. QED  BY <1>1, <2>1, U16Small
<1>5. ASSUME HostPorts(p) \cap HostPorts(q) # {}
      PROVE  p.ports > 0 /\ q.ports > 0 /\ d * 100 < p.ports
  <2>1. PICK k \in 0..(p.ports - 1), l \in 0..(q.ports - 1) :
               (FirstPort(p) + k) % U16 = (FirstPort(q) + l) % U16
    BY <1>5 DEF HostPorts
  <2>2. FirstPort(p) + k = FirstPort(q) + l
    BY <1>3, <1>4, <2>1
  <2>. QED  BY <1>2, <2>2
<1>6. ASSUME p.ports > 0, q.ports > 0, d * 100 < p.ports
      PROVE  HostPorts(p) \cap HostPorts(q) # {}
  <2>1. d * 100 \in 0..(p.ports - 1) /\ 0 \in 0..(q.ports - 1)
    BY <1>2, <1>6
  <2>2. (FirstPort(p) + d * 100) % U16 \in HostPorts(p)
    BY <2>1 DEF HostPorts
  <2>3. (FirstPort(q) + 0) % U16 \in HostPorts(q)
    BY <2>1 DEF HostPorts
  <2>4. FirstPort(p) + d * 100 = FirstPort(q) + 0
    BY <1>2
  <2>. QED  BY <2>2, <2>3, <2>4
<1>. QED  BY <1>5, <1>6
=============================================================================
