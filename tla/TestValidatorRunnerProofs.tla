--------------------- MODULE TestValidatorRunnerProofs ---------------------
(***************************************************************************)
(* Proofs about TestValidatorRunner for every value of its constants.      *)
(***************************************************************************)
EXTENDS TestValidatorRunner, SequenceTheorems, TLAPS

USE ConstantsAssumption

(* The ports run_internal marks and Drop frees are a sequence of ports.   *)
LEMMA PortListType ==
    ASSUME NEW ps \in PortSet
    PROVE  PortList(ps) \in Seq(Port)
<1> DEFINE g1 == ps.gossip_range[1]
           g2 == ps.gossip_range[2]
           m == IF g2 - g1 + 1 >= 0 THEN g2 - g1 + 1 ELSE 0
           gossip == [i \in 1..(g2 - g1 + 1) |-> g1 + i - 1]
<1>1. g1 \in Port /\ g2 \in Port
  BY DEF PortSet
<1>2. m \in Nat /\ 1..(g2 - g1 + 1) = 1..m
  BY <1>1 DEF Port
<1>3. gossip \in [1..m -> Port]
  BY <1>1, <1>2 DEF Port
<1>4. gossip \in Seq(Port)
  <2>1. [1..m -> Port] \in {[1..n -> Port] : n \in Nat}
    BY <1>2
  <2>2. gossip \in UNION {[1..n -> Port] : n \in Nat}
    BY <1>3, <2>1
  <2>3. QED
    BY <2>2, SeqDef
<1>5. <<ps.rpc, ps.pubsub, ps.faucet>> \in Seq(Port)
  BY DEF PortSet
<1>6. QED
  BY <1>4, <1>5, ConcatProperties DEF PortList

(* find_ports' layout of a random base fits in the u16 port range.        *)
LEMMA LayoutType ==
    ASSUME NEW base \in PortMin..(PortMax - 1)
    PROVE  /\ Layout(base) \in PortSet
           /\ Layout(base).rpc + 1 \in Port
BY DEF Layout, PortSet, Port

-----------------------------------------------------------------------------
(* TypeOK is not inductive by itself: a search still running has an      *)
(* attempt left, a runner past its props has a port set whose rpc + 1 is *)
(* a port, and a ready or dropping runner has a live handle value.        *)
Resolved == {"resolved", "marking", "faucet", "starting", "warming",
             "ready", "dropping", "done"}

TypeInv ==
    /\ TypeOK
    /\ \A r \in Runner : pc[r] = "finding" => attempts[r] >= 1
    /\ \A r \in Runner : pc[r] \in Resolved =>
            ports[r] \in PortSet /\ ports[r].rpc + 1 \in Port
    /\ \A r \in Runner : pc[r] \in {"ready", "dropping"} => copies[r] >= 1

LEMMA TypeInvInit == Init => TypeInv
BY DEF Init, TypeInv, TypeOK, States, Resolved

LEMMA TypeInvNext == TypeInv /\ [Next]_vars => TypeInv'
<1> SUFFICES ASSUME TypeInv, [Next]_vars PROVE TypeInv'
  OBVIOUS
<1> USE DEF TypeInv, TypeOK, States, Resolved
<1>1. ASSUME NEW r \in Runner, BuildProps(r) PROVE TypeInv'
  BY <1>1 DEF BuildProps
<1>2. ASSUME NEW r \in Runner, FindPorts(r) PROVE TypeInv'
  <2>1. PICK base \in PortMin..(PortMax - 1) :
          \/ /\ \A p \in PortsOf(Layout(base)) : is_port_available(p)
             /\ ports' = [ports EXCEPT ![r] = Layout(base)]
             /\ pc' = [pc EXCEPT ![r] = "resolved"]
          \/ /\ \E p \in PortsOf(Layout(base)) : ~ is_port_available(p)
             /\ ~ OutOfAttempts(AttemptsLeft(r))
             /\ UNCHANGED <<ports, pc>>
          \/ /\ \E p \in PortsOf(Layout(base)) : ~ is_port_available(p)
             /\ OutOfAttempts(AttemptsLeft(r))
             /\ pc' = [pc EXCEPT ![r] = "failed"]
             /\ UNCHANGED ports
    BY <1>2 DEF FindPorts
  <2>2. Layout(base) \in PortSet /\ Layout(base).rpc + 1 \in Port
    BY LayoutType
  <2>3. QED
    BY <1>2, <2>1, <2>2 DEF FindPorts, AttemptsLeft, OutOfAttempts
<1>3. ASSUME NEW r \in Runner, Run(r) PROVE TypeInv'
  BY <1>3 DEF Run
<1>4. ASSUME NEW r \in Runner, MarkPortUsed(r) PROVE TypeInv'
  <2>1. PortList(ports[r])[cursor[r] + 1] \in Port
    BY <1>4, PortListType, ElementOfSeq DEF MarkPortUsed
  <2>2. QED
    BY <1>4, <2>1 DEF MarkPortUsed
<1>5. ASSUME NEW r \in Runner, RunLocalFaucet(r) PROVE TypeInv'
  BY <1>5 DEF RunLocalFaucet
<1>6. ASSUME NEW r \in Runner, FaucetReply(r) PROVE TypeInv'
  BY <1>6 DEF FaucetReply, PortSet
<1>7. ASSUME NEW r \in Runner, RecvFaucetAck(r) PROVE TypeInv'
  BY <1>7 DEF RecvFaucetAck
<1>8. ASSUME NEW r \in Runner, StartAsync(r) PROVE TypeInv'
  BY <1>8 DEF StartAsync, ValidatorPorts, PortSet
<1>9. ASSUME NEW r \in Runner, RequestAirdrop(r) PROVE TypeInv'
  BY <1>9 DEF RequestAirdrop
<1>10. ASSUME NEW r \in Runner, CloneRunner(r) PROVE TypeInv'
  BY <1>10 DEF CloneRunner
<1>11. ASSUME NEW r \in Runner, DropRunner(r) PROVE TypeInv'
  BY <1>11 DEF DropRunner
<1>12. ASSUME NEW r \in Runner, FreePort(r) PROVE TypeInv'
  BY <1>12 DEF FreePort
<1>13. ASSUME NEW r \in Runner, DropDone(r) PROVE TypeInv'
  BY <1>13 DEF DropDone, ReleasedSockets
<1>14. CASE UNCHANGED vars
  BY <1>14 DEF vars
<1>15. QED
  BY <1>1, <1>2, <1>3, <1>4, <1>5, <1>6, <1>7, <1>8, <1>9, <1>10,
     <1>11, <1>12, <1>13, <1>14 DEF Next

(* Every reachable state is well typed: the ports in USED_PORTS and the   *)
(* bound sockets are u16 ports, find_ports never counts its attempts      *)
(* below zero, and the number of live handle values stays in range.       *)
THEOREM TypeCorrect == Spec => []TypeOK
<1>1. Spec => []TypeInv
  BY TypeInvInit, TypeInvNext, PTL DEF Spec
<1>2. QED
  BY <1>1, PTL DEF TypeInv

-----------------------------------------------------------------------------
(* RegistryAccounted is inductive together with TypeInv.  One step of     *)
(* runner r keeps it when the other runners' holdings are untouched, the  *)
(* ports r adds to USED_PORTS are held by r afterwards, and what r held   *)
(* and is still in USED_PORTS r still holds.                               *)
RegInv == TypeInv /\ RegistryAccounted

LEMMA AccountedStep ==
    ASSUME NEW r \in Runner,
           RegistryAccounted,
           \A s \in Runner \ {r} : Held(s)' = Held(s),
           used_ports' \subseteq used_ports \cup Held(r)',
           Held(r) \cap used_ports' \subseteq Held(r)'
    PROVE  RegistryAccounted'
<1> SUFFICES ASSUME NEW p \in used_ports'
             PROVE  \E s \in Runner : p \in Held(s)'
  BY DEF RegistryAccounted
<1>1. CASE p \notin used_ports
  BY <1>1
<1>2. CASE p \in used_ports
  <2>1. PICK s \in Runner : p \in Held(s)
    BY <1>2 DEF RegistryAccounted
  <2>2. CASE s = r
    BY <2>1, <2>2
  <2>3. CASE s # r
    BY <2>1, <2>3
  <2>4. QED
    BY <2>2, <2>3
<1>3. QED
  BY <1>1, <1>2

(* A runner whose pc, ports and cursor a step leaves alone holds the same *)
(* ports after it.                                                         *)
LEMMA HeldFrame ==
    ASSUME NEW s, pc'[s] = pc[s], ports'[s] = ports[s], cursor'[s] = cursor[s]
    PROVE  Held(s)' = Held(s)
BY DEF Held

(* Marking or freeing every port of the list holds or releases them all.  *)
LEMMA HeldAll ==
    ASSUME NEW ps \in PortSet
    PROVE  /\ {PortList(ps)[i] : i \in 1..Len(PortList(ps))} = PortsOf(ps)
           /\ {PortList(ps)[i] : i \in (Len(PortList(ps)) + 1)..Len(PortList(ps))} = {}
<1>1. PortList(ps) \in Seq(Port)
  BY PortListType
<1>2. DOMAIN PortList(ps) = 1..Len(PortList(ps)) /\ Len(PortList(ps)) \in Nat
  BY <1>1, LenProperties
<1>3. QED
  BY <1>2 DEF PortsOf, Range

LEMMA RegInvNext == RegInv /\ [Next]_vars => RegInv'
<1> SUFFICES ASSUME TypeInv, RegistryAccounted, [Next]_vars
             PROVE  RegistryAccounted'
  BY TypeInvNext DEF RegInv
<1> USE DEF TypeInv, TypeOK, Resolved
<1>1. ASSUME NEW r \in Runner, BuildProps(r) PROVE RegistryAccounted'
  <2>1. \A s \in Runner \ {r} : Held(s)' = Held(s)
    BY <1>1, HeldFrame DEF BuildProps
  <2>2. Held(r) = {}
    BY <1>1 DEF BuildProps, Held
  <2>3. QED
    BY <1>1, <2>1, <2>2, AccountedStep DEF BuildProps
<1>2. ASSUME NEW r \in Runner, FindPorts(r) PROVE RegistryAccounted'
  <2>1. \A s \in Runner \ {r} : Held(s)' = Held(s)
    BY <1>2, HeldFrame DEF FindPorts
  <2>2. Held(r) = {}
    BY <1>2 DEF FindPorts, Held
  <2>3. QED
    BY <1>2, <2>1, <2>2, AccountedStep DEF FindPorts
<1>3. ASSUME NEW r \in Runner, Run(r) PROVE RegistryAccounted'
  <2>1. \A s \in Runner \ {r} : Held(s)' = Held(s)
    BY <1>3, HeldFrame DEF Run
  <2>2. Held(r) = {}
    BY <1>3 DEF Run, Held
  <2>3. QED
    BY <1>3, <2>1, <2>2, AccountedStep DEF Run
<1>4. ASSUME NEW r \in Runner, MarkPortUsed(r) PROVE RegistryAccounted'
  <2> DEFINE L == PortList(ports[r])
             c == cursor[r]
  <2>1. \A s \in Runner \ {r} : Held(s)' = Held(s)
    BY <1>4, HeldFrame DEF MarkPortUsed
  <2>2. Held(r) = {L[i] : i \in 1..c}
    BY <1>4 DEF MarkPortUsed, Held
  <2>3. Held(r)' = {L[i] : i \in 1..(c + 1)}
    BY <1>4 DEF MarkPortUsed, Held
  <2>4. used_ports' = used_ports \cup {L[c + 1]}
    BY <1>4 DEF MarkPortUsed
  <2>5. QED
    BY <2>1, <2>2, <2>3, <2>4, AccountedStep
<1>5. ASSUME NEW r \in Runner, RunLocalFaucet(r) PROVE RegistryAccounted'
  <2>1. \A s \in Runner \ {r} : Held(s)' = Held(s)
    BY <1>5, HeldFrame DEF RunLocalFaucet
  <2>2. ports[r] \in PortSet
    BY <1>5 DEF RunLocalFaucet
  <2>3. Held(r) = PortsOf(ports[r]) /\ Held(r)' = PortsOf(ports[r])
    BY <1>5, <2>2, HeldAll DEF RunLocalFaucet, Held
  <2>4. QED
    BY <1>5, <2>1, <2>3, AccountedStep DEF RunLocalFaucet
<1>6. ASSUME NEW r \in Runner, FaucetReply(r) PROVE RegistryAccounted'
  <2>1. \A s \in Runner : Held(s)' = Held(s)
    BY <1>6, HeldFrame DEF FaucetReply
  <2>2. QED
    BY <1>6, <2>1, AccountedStep DEF FaucetReply
<1>7. ASSUME NEW r \in Runner, RecvFaucetAck(r) PROVE RegistryAccounted'
  <2>1. \A s \in Runner \ {r} : Held(s)' = Held(s)
    BY <1>7, HeldFrame DEF RecvFaucetAck
  <2>2. ports[r] # NoPorts
    BY <1>7 DEF RecvFaucetAck
  <2>3. Held(r)' = Held(r)
    BY <1>7, <2>2 DEF RecvFaucetAck, Held
  <2>4. QED
    BY <1>7, <2>1, <2>3, AccountedStep DEF RecvFaucetAck
<1>8. ASSUME NEW r \in Runner, StartAsync(r) PROVE RegistryAccounted'
  <2>1. \A s \in Runner \ {r} : Held(s)' = Held(s)
    BY <1>8, HeldFrame DEF StartAsync
  <2>2. ports[r] # NoPorts
    BY <1>8 DEF StartAsync
  <2>3. Held(r)' = Held(r)
    BY <1>8, <2>2 DEF StartAsync, Held
  <2>4. QED
    BY <1>8, <2>1, <2>3, AccountedStep DEF StartAsync
<1>9. ASSUME NEW r \in Runner, RequestAirdrop(r) PROVE RegistryAccounted'
  <2>1. \A s \in Runner \ {r} : Held(s)' = Held(s)
    BY <1>9, HeldFrame DEF RequestAirdrop
  <2>2. ports[r] # NoPorts
    BY <1>9 DEF RequestAirdrop
  <2>3. Held(r)' = Held(r)
    BY <1>9, <2>2 DEF RequestAirdrop, Held
  <2>4. QED
    BY <1>9, <2>1, <2>3, AccountedStep DEF RequestAirdrop
<1>10. ASSUME NEW r \in Runner, CloneRunner(r) PROVE RegistryAccounted'
  <2>1. \A s \in Runner : Held(s)' = Held(s)
    BY <1>10, HeldFrame DEF CloneRunner
  <2>2. QED
    BY <1>10, <2>1, AccountedStep DEF CloneRunner
<1>11. ASSUME NEW r \in Runner, DropRunner(r) PROVE RegistryAccounted'
  <2>1. \A s \in Runner \ {r} : Held(s)' = Held(s)
    BY <1>11, HeldFrame DEF DropRunner
  <2>2. ports[r] \in PortSet
    BY <1>11 DEF DropRunner
  <2>3. Held(r) = PortsOf(ports[r]) /\ Held(r)' = PortsOf(ports[r])
    BY <1>11, <2>2, HeldAll DEF DropRunner, Held
  <2>4. QED
    BY <1>11, <2>1, <2>3, AccountedStep DEF DropRunner
<1>12. ASSUME NEW r \in Runner, FreePort(r) PROVE RegistryAccounted'
  <2> DEFINE L == PortList(ports[r])
             c == cursor[r]
  <2>1. \A s \in Runner \ {r} : Held(s)' = Held(s)
    BY <1>12, HeldFrame DEF FreePort
  <2>2. Held(r) = {L[i] : i \in (c + 1)..Len(L)}
    BY <1>12 DEF FreePort, Held
  <2>3. Held(r)' = {L[i] : i \in (c + 2)..Len(L)}
    <3>1. pc'[r] = "dropping" /\ ports'[r] = ports[r] /\ cursor'[r] = c + 1
      BY <1>12 DEF FreePort
    <3>2. Held(r)' = {PortList(ports'[r])[i] :
                          i \in (cursor'[r] + 1)..Len(PortList(ports'[r]))}
      BY <3>1 DEF Held
    <3>3. QED
      BY <3>1, <3>2
  <2>4. used_ports' = used_ports \ {L[c + 1]}
    BY <1>12 DEF FreePort
  <2>5. Held(r) \cap used_ports' \subseteq Held(r)'
    BY <2>2, <2>3, <2>4
  <2>6. QED
    BY <2>1, <2>4, <2>5, AccountedStep
<1>13. ASSUME NEW r \in Runner, DropDone(r) PROVE RegistryAccounted'
  <2>1. \A s \in Runner \ {r} : Held(s)' = Held(s)
    BY <1>13, HeldFrame DEF DropDone
  <2>2. ports[r] \in PortSet
    BY <1>13 DEF DropDone
  <2>3. Held(r) = {}
    BY <1>13, <2>2, HeldAll DEF DropDone, FreedAll, Held
  <2>4. QED
    BY <1>13, <2>1, <2>3, AccountedStep DEF DropDone
<1>14. CASE UNCHANGED vars
  <2>1. \A s \in Runner : Held(s)' = Held(s)
    BY <1>14, HeldFrame DEF vars
  <2>2. QED
    BY <1>14, <2>1 DEF vars, RegistryAccounted
<1>15. QED
  BY <1>1, <1>2, <1>3, <1>4, <1>5, <1>6, <1>7, <1>8, <1>9, <1>10,
     <1>11, <1>12, <1>13, <1>14 DEF Next

(* Every port in USED_PORTS is held by a runner that marked it and has    *)
(* not freed it yet, for any number of runners and any port layout: once  *)
(* every test's Drop has run, the registry is empty of its ports.          *)
THEOREM RegistryAccountedInvariant == Spec => []RegistryAccounted
<1>1. Init => RegInv
  BY TypeInvInit DEF Init, RegInv, RegistryAccounted
<1>2. QED
  BY <1>1, RegInvNext, PTL DEF Spec, RegInv

-----------------------------------------------------------------------------
(* ServicesBoundWhileLive is not inductive: a step of one runner could    *)
(* release a socket another runner relies on.  The strengthening says     *)
(* what each runner owns: its faucet socket from the faucet's Ok until it *)
(* leaves the live states, its validator's sockets while warming, ready   *)
(* or dropping.  Owned sockets are bound, and two runners never own the   *)
(* same socket, since a bind takes only a free port; so the sockets one   *)
(* runner releases, which it owns, are no other runner's.                  *)
Live == {"warming", "ready", "dropping"}

FaucetOwned(r) ==
    \/ pc[r] = "faucet" /\ ack[r] = "ok"
    \/ pc[r] \in {"starting"} \cup Live

Owned(r) ==
    (IF FaucetOwned(r) THEN {ports[r].faucet} ELSE {})
        \cup (IF pc[r] \in Live THEN ValidatorPorts(ports[r]) ELSE {})

OwnedBound == \A r \in Runner : Owned(r) \subseteq os_bound

OwnedDisjoint == \A r, s \in Runner : r # s => Owned(r) \cap Owned(s) = {}

BoundInv == TypeInv /\ OwnedBound /\ OwnedDisjoint

(* A runner whose pc, ports and ack a step leaves alone owns the same     *)
(* sockets after it.                                                       *)
LEMMA OwnedFrame ==
    ASSUME NEW s, pc'[s] = pc[s], ports'[s] = ports[s], ack'[s] = ack[s]
    PROVE  Owned(s)' = Owned(s)
BY DEF Owned, FaucetOwned, Live

(* One step of runner r that binds the free sockets N and releases the    *)
(* sockets R it owned keeps both conjuncts, when r owns afterwards only   *)
(* what it owned or bound, none of what it released, and the others own  *)
(* what they owned.                                                        *)
LEMMA OwnedStep ==
    ASSUME NEW r \in Runner, NEW N, NEW R,
           OwnedBound, OwnedDisjoint,
           os_bound' = (os_bound \ R) \cup N,
           N \cap os_bound = {},
           R \subseteq Owned(r),
           Owned(r)' \subseteq Owned(r) \cup N,
           Owned(r)' \cap R = {},
           \A s \in Runner \ {r} : Owned(s)' = Owned(s)
    PROVE  OwnedBound' /\ OwnedDisjoint'
<1>1. OwnedBound'
  <2> SUFFICES ASSUME NEW s \in Runner PROVE Owned(s)' \subseteq os_bound'
    BY DEF OwnedBound
  <2>1. CASE s = r
    BY <2>1 DEF OwnedBound
  <2>2. CASE s # r
    <3>1. Owned(s) \cap R = {}
      BY <2>2 DEF OwnedDisjoint
    <3>2. QED
      BY <2>2, <3>1 DEF OwnedBound
  <2>3. QED
    BY <2>1, <2>2
<1>2. OwnedDisjoint'
  <2> SUFFICES ASSUME NEW s \in Runner, NEW t \in Runner, s # t
               PROVE  Owned(s)' \cap Owned(t)' = {}
    BY DEF OwnedDisjoint
  <2>1. CASE s # r /\ t # r
    BY <2>1 DEF OwnedDisjoint
  <2>2. ASSUME NEW u \in Runner, u # r PROVE Owned(r)' \cap Owned(u)' = {}
    <3>1. Owned(u) \subseteq os_bound /\ Owned(r) \cap Owned(u) = {}
      BY <2>2 DEF OwnedBound, OwnedDisjoint
    <3>2. QED
      BY <2>2, <3>1
  <2>3. QED
    BY <2>1, <2>2
<1>3. QED
  BY <1>1, <1>2


LEMMA BoundInvNext == BoundInv /\ [Next]_vars => BoundInv'
<1> SUFFICES ASSUME TypeInv, OwnedBound, OwnedDisjoint, [Next]_vars
             PROVE  OwnedBound' /\ OwnedDisjoint'
  BY TypeInvNext DEF BoundInv
<1> USE DEF TypeInv, TypeOK
<1>1. ASSUME NEW r \in Runner, BuildProps(r) PROVE OwnedBound' /\ OwnedDisjoint'
  <2>1. \A s \in Runner \ {r} : Owned(s)' = Owned(s)
    BY <1>1, OwnedFrame DEF BuildProps
  <2>2. /\ os_bound' = (os_bound \ {}) \cup {}
      /\ {} \cap os_bound = {}
      /\ {} \subseteq Owned(r)
      /\ Owned(r)' \subseteq Owned(r) \cup {}
      /\ Owned(r)' \cap {} = {}
    BY <1>1 DEF BuildProps, Owned, FaucetOwned, Live
  <2>3. QED
    BY <2>1, <2>2, OwnedStep, Zenon
<1>2. ASSUME NEW r \in Runner, FindPorts(r) PROVE OwnedBound' /\ OwnedDisjoint'
  <2>1. \A s \in Runner \ {r} : Owned(s)' = Owned(s)
    BY <1>2, OwnedFrame DEF FindPorts
  <2>2. /\ os_bound' = (os_bound \ {}) \cup {}
      /\ {} \cap os_bound = {}
      /\ {} \subseteq Owned(r)
      /\ Owned(r)' \subseteq Owned(r) \cup {}
      /\ Owned(r)' \cap {} = {}
    BY <1>2 DEF FindPorts, Owned, FaucetOwned, Live
  <2>3. QED
    BY <2>1, <2>2, OwnedStep, Zenon
<1>3. ASSUME NEW r \in Runner, Run(r) PROVE OwnedBound' /\ OwnedDisjoint'
  <2>1. \A s \in Runner \ {r} : Owned(s)' = Owned(s)
    BY <1>3, OwnedFrame DEF Run
  <2>2. /\ os_bound' = (os_bound \ {}) \cup {}
      /\ {} \cap os_bound = {}
      /\ {} \subseteq Owned(r)
      /\ Owned(r)' \subseteq Owned(r) \cup {}
      /\ Owned(r)' \cap {} = {}
    BY <1>3 DEF Run, Owned, FaucetOwned, Live
  <2>3. QED
    BY <2>1, <2>2, OwnedStep, Zenon
<1>4. ASSUME NEW r \in Runner, MarkPortUsed(r) PROVE OwnedBound' /\ OwnedDisjoint'
  <2>1. \A s \in Runner \ {r} : Owned(s)' = Owned(s)
    BY <1>4, OwnedFrame DEF MarkPortUsed
  <2>2. /\ os_bound' = (os_bound \ {}) \cup {}
      /\ {} \cap os_bound = {}
      /\ {} \subseteq Owned(r)
      /\ Owned(r)' \subseteq Owned(r) \cup {}
      /\ Owned(r)' \cap {} = {}
    BY <1>4 DEF MarkPortUsed, Owned, FaucetOwned, Live
  <2>3. QED
    BY <2>1, <2>2, OwnedStep, Zenon
<1>5. ASSUME NEW r \in Runner, RunLocalFaucet(r) PROVE OwnedBound' /\ OwnedDisjoint'
  <2>1. \A s \in Runner \ {r} : Owned(s)' = Owned(s)
    BY <1>5, OwnedFrame DEF RunLocalFaucet
  <2>2. /\ os_bound' = (os_bound \ {}) \cup {}
      /\ {} \cap os_bound = {}
      /\ {} \subseteq Owned(r)
      /\ Owned(r)' \subseteq Owned(r) \cup {}
      /\ Owned(r)' \cap {} = {}
    BY <1>5 DEF RunLocalFaucet, Owned, FaucetOwned, Live
  <2>3. QED
    BY <2>1, <2>2, OwnedStep, Zenon
<1>6. ASSUME NEW r \in Runner, FaucetReply(r) PROVE OwnedBound' /\ OwnedDisjoint'
  <2>1. \A s \in Runner \ {r} : Owned(s)' = Owned(s)
    BY <1>6, OwnedFrame DEF FaucetReply
  <2>2. CASE ack'[r] = "ok"
    <3>1. /\ os_bound' = (os_bound \ {}) \cup {ports[r].faucet}
        /\ {ports[r].faucet} \cap os_bound = {}
        /\ {} \subseteq Owned(r)
        /\ Owned(r)' \subseteq Owned(r) \cup {ports[r].faucet}
        /\ Owned(r)' \cap {} = {}
      BY <1>6, <2>2 DEF FaucetReply, is_local_ipv4_port_free, Owned, FaucetOwned, Live
    <3>2. QED
      BY <2>1, <3>1, OwnedStep, Zenon
  <2>3. CASE ack'[r] # "ok"
    <3>1. /\ os_bound' = (os_bound \ {}) \cup {}
        /\ {} \cap os_bound = {}
        /\ {} \subseteq Owned(r)
        /\ Owned(r)' \subseteq Owned(r) \cup {}
        /\ Owned(r)' \cap {} = {}
      BY <1>6, <2>3 DEF FaucetReply, Owned, FaucetOwned, Live
    <3>2. QED
      BY <2>1, <3>1, OwnedStep, Zenon
  <2>4. QED
    BY <2>2, <2>3
<1>7. ASSUME NEW r \in Runner, RecvFaucetAck(r) PROVE OwnedBound' /\ OwnedDisjoint'
  <2>1. \A s \in Runner \ {r} : Owned(s)' = Owned(s)
    BY <1>7, OwnedFrame DEF RecvFaucetAck
  <2>2. /\ os_bound' = (os_bound \ {}) \cup {}
      /\ {} \cap os_bound = {}
      /\ {} \subseteq Owned(r)
      /\ Owned(r)' \subseteq Owned(r) \cup {}
      /\ Owned(r)' \cap {} = {}
    BY <1>7 DEF RecvFaucetAck, Owned, FaucetOwned, Live
  <2>3. QED
    BY <2>1, <2>2, OwnedStep, Zenon
<1>8. ASSUME NEW r \in Runner, StartAsync(r) PROVE OwnedBound' /\ OwnedDisjoint'
  <2>1. \A s \in Runner \ {r} : Owned(s)' = Owned(s)
    BY <1>8, OwnedFrame DEF StartAsync
  <2>2. CASE pc'[r] = "warming"
    <3>1. /\ os_bound' = (os_bound \ {}) \cup ValidatorPorts(ports[r])
        /\ ValidatorPorts(ports[r]) \cap os_bound = {}
        /\ {} \subseteq Owned(r)
        /\ Owned(r)' \subseteq Owned(r) \cup ValidatorPorts(ports[r])
        /\ Owned(r)' \cap {} = {}
      BY <1>8, <2>2 DEF StartAsync, is_local_ipv4_port_free, Owned, FaucetOwned, Live
    <3>2. QED
      BY <2>1, <3>1, OwnedStep, Zenon
  <2>3. CASE pc'[r] # "warming"
    <3>1. /\ os_bound' = (os_bound \ {}) \cup {}
        /\ {} \cap os_bound = {}
        /\ {} \subseteq Owned(r)
        /\ Owned(r)' \subseteq Owned(r) \cup {}
        /\ Owned(r)' \cap {} = {}
      BY <1>8, <2>3 DEF StartAsync, Owned, FaucetOwned, Live
    <3>2. QED
      BY <2>1, <3>1, OwnedStep, Zenon
  <2>4. QED
    BY <2>2, <2>3
<1>9. ASSUME NEW r \in Runner, RequestAirdrop(r) PROVE OwnedBound' /\ OwnedDisjoint'
  <2>1. \A s \in Runner \ {r} : Owned(s)' = Owned(s)
    BY <1>9, OwnedFrame DEF RequestAirdrop
  <2>2. CASE pc'[r] = "ready"
    <3>1. /\ os_bound' = (os_bound \ {}) \cup {}
        /\ {} \cap os_bound = {}
        /\ {} \subseteq Owned(r)
        /\ Owned(r)' \subseteq Owned(r) \cup {}
        /\ Owned(r)' \cap {} = {}
      BY <1>9, <2>2 DEF RequestAirdrop, Owned, FaucetOwned, Live
    <3>2. QED
      BY <2>1, <3>1, OwnedStep, Zenon
  <2>3. CASE pc'[r] # "ready"
    <3>1. /\ os_bound' = (os_bound \ ValidatorPorts(ports[r])) \cup {}
        /\ {} \cap os_bound = {}
        /\ ValidatorPorts(ports[r]) \subseteq Owned(r)
        /\ Owned(r)' \subseteq Owned(r) \cup {}
        /\ Owned(r)' \cap ValidatorPorts(ports[r]) = {}
      BY <1>9, <2>3 DEF RequestAirdrop, Owned, FaucetOwned, Live
    <3>2. QED
      BY <2>1, <3>1, OwnedStep, Zenon
  <2>4. QED
    BY <2>2, <2>3
<1>10. ASSUME NEW r \in Runner, CloneRunner(r) PROVE OwnedBound' /\ OwnedDisjoint'
  <2>1. \A s \in Runner \ {r} : Owned(s)' = Owned(s)
    BY <1>10, OwnedFrame DEF CloneRunner
  <2>2. /\ os_bound' = (os_bound \ {}) \cup {}
      /\ {} \cap os_bound = {}
      /\ {} \subseteq Owned(r)
      /\ Owned(r)' \subseteq Owned(r) \cup {}
      /\ Owned(r)' \cap {} = {}
    BY <1>10 DEF CloneRunner, Owned, FaucetOwned, Live
  <2>3. QED
    BY <2>1, <2>2, OwnedStep, Zenon
<1>11. ASSUME NEW r \in Runner, DropRunner(r) PROVE OwnedBound' /\ OwnedDisjoint'
  <2>1. \A s \in Runner \ {r} : Owned(s)' = Owned(s)
    BY <1>11, OwnedFrame DEF DropRunner
  <2>2. /\ os_bound' = (os_bound \ {}) \cup {}
      /\ {} \cap os_bound = {}
      /\ {} \subseteq Owned(r)
      /\ Owned(r)' \subseteq Owned(r) \cup {}
      /\ Owned(r)' \cap {} = {}
    BY <1>11 DEF DropRunner, Owned, FaucetOwned, Live
  <2>3. QED
    BY <2>1, <2>2, OwnedStep, Zenon
<1>12. ASSUME NEW r \in Runner, FreePort(r) PROVE OwnedBound' /\ OwnedDisjoint'
  <2>1. \A s \in Runner \ {r} : Owned(s)' = Owned(s)
    BY <1>12, OwnedFrame DEF FreePort
  <2>2. /\ os_bound' = (os_bound \ {}) \cup {}
      /\ {} \cap os_bound = {}
      /\ {} \subseteq Owned(r)
      /\ Owned(r)' \subseteq Owned(r) \cup {}
      /\ Owned(r)' \cap {} = {}
    BY <1>12 DEF FreePort, Owned, FaucetOwned, Live
  <2>3. QED
    BY <2>1, <2>2, OwnedStep, Zenon
<1>13. ASSUME NEW r \in Runner, DropDone(r) PROVE OwnedBound' /\ OwnedDisjoint'
  <2>1. \A s \in Runner \ {r} : Owned(s)' = Owned(s)
    BY <1>13, OwnedFrame DEF DropDone
  <2>2. CASE copies[r] = 1
    <3>1. /\ os_bound' = (os_bound \ ValidatorPorts(ports[r])) \cup {}
        /\ {} \cap os_bound = {}
        /\ ValidatorPorts(ports[r]) \subseteq Owned(r)
        /\ Owned(r)' \subseteq Owned(r) \cup {}
        /\ Owned(r)' \cap ValidatorPorts(ports[r]) = {}
      BY <1>13, <2>2 DEF DropDone, ReleasedSockets, Owned, FaucetOwned, Live
    <3>2. QED
      BY <2>1, <3>1, OwnedStep, Zenon
  <2>3. CASE copies[r] # 1
    <3>1. /\ os_bound' = (os_bound \ {}) \cup {}
        /\ {} \cap os_bound = {}
        /\ {} \subseteq Owned(r)
        /\ Owned(r)' \subseteq Owned(r) \cup {}
        /\ Owned(r)' \cap {} = {}
      BY <1>13, <2>3 DEF DropDone, ReleasedSockets, Owned, FaucetOwned, Live
    <3>2. QED
      BY <2>1, <3>1, OwnedStep, Zenon
  <2>4. QED
    BY <2>2, <2>3
<1>14. CASE UNCHANGED vars
  <2>1. \A s \in Runner : Owned(s)' = Owned(s)
    BY <1>14, OwnedFrame DEF vars
  <2>2. QED
    BY <1>14, <2>1 DEF vars, OwnedBound, OwnedDisjoint
<1>15. QED
  BY <1>1, <1>2, <1>3, <1>4, <1>5, <1>6, <1>7, <1>8, <1>9, <1>10,
     <1>11, <1>12, <1>13, <1>14 DEF Next

(* While a test's runner is warming up, ready or being dropped, its faucet *)
(* socket and its validator's rpc, pubsub-side and gossip sockets are     *)
(* bound, whatever the number of tests and their port layouts: no other   *)
(* runner's failed airdrop or last Drop releases them.                     *)
THEOREM ServicesBound == Spec => []ServicesBoundWhileLive
<1>1. Init => BoundInv
  BY TypeInvInit DEF Init, BoundInv, OwnedBound, OwnedDisjoint, Owned,
                     FaucetOwned, Live
<1>2. BoundInv => ServicesBoundWhileLive
  BY DEF BoundInv, OwnedBound, Owned, FaucetOwned, Live, ServicesBoundWhileLive
<1>3. QED
  BY <1>1, <1>2, BoundInvNext, PTL DEF Spec

=============================================================================
