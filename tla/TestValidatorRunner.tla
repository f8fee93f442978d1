------------------------- MODULE TestValidatorRunner -------------------------
(***************************************************************************)
(* The port registry and the start-up / tear-down sequence of             *)
(* crates/test_utils_solana/src/test_validator_runner.rs.                 *)
(*                                                                         *)
(* Every member of Runner is one test that builds a                       *)
(* TestValidatorRunnerProps (its ports explicit or found by find_ports),  *)
(* runs TestValidatorRunner::run_internal and later drops the handle and  *)
(* its clones.  The process-wide USED_PORTS set is used_ports; the        *)
(* sockets bound in the operating system by the services of this process  *)
(* are os_bound, and ExternalPorts are held by other processes.           *)
(*                                                                         *)
(* Each lock of USED_PORTS is one step: one mark_port_used or free_port   *)
(* per step, in the order of the code.  One attempt of find_ports (its    *)
(* is_port_available calls) is one step.                                  *)
(***************************************************************************)
EXTENDS Integers, Sequences, Functions

CONSTANTS
    Runner,         \* the tests that build and run a validator runner
    U16Max,         \* u16::MAX
    PortMin,        \* lower bound of rng.random_range(1000..max)
    PortMax,        \* max = u16::MAX - 25, excluded
    GossipSpan,     \* range_end = range_start + 20
    MaxAttempts,    \* let mut attempts = 100
    ExplicitPorts,  \* the TestValidatorPorts a test may give explicitly
    ExternalPorts,  \* ports bound by other processes
    MaxCopies,      \* bound on the live clones of one runner
    NoPorts         \* ports not yet resolved

Port == 0..U16Max

PortSet == [rpc : Port, pubsub : Port, faucet : Port,
            gossip_range : Port \X Port]

ASSUME ConstantsAssumption ==
    /\ U16Max \in Nat
    /\ PortMin \in Nat /\ PortMax \in Nat /\ PortMin < PortMax
    /\ GossipSpan \in Nat
    /\ PortMax - 1 + 3 + GossipSpan <= U16Max
    /\ MaxAttempts \in Nat \ {0}
    /\ MaxCopies \in Nat \ {0}
    /\ ExplicitPorts \subseteq PortSet
    /\ \A ps \in ExplicitPorts : ps.rpc + 1 \in Port
    /\ ExternalPorts \subseteq Port
    /\ NoPorts \notin PortSet

VARIABLES
    used_ports,   \* USED_PORTS
    os_bound,     \* sockets bound by the faucets and validators of the process
    pc,           \* where each runner is in its life
    ports,        \* the runner's TestValidatorPorts
    attempts,     \* find_ports' remaining attempts
    cursor,       \* ports marked used (or freed, while dropping) so far
    ack,          \* the faucet's message on the one-shot channel
    copies        \* live clones of the runner handle

vars == <<used_ports, os_bound, pc, ports, attempts, cursor, ack, copies>>

States == {"idle", "finding", "resolved", "marking", "faucet", "starting",
           "warming", "ready", "dropping", "done", "failed"}

-----------------------------------------------------------------------------
(* The ports of a TestValidatorPorts, in the order run_internal marks and  *)
(* Drop frees them: rpc, pubsub, faucet, then gossip_range.0..=.1.         *)
PortList(ps) ==
    <<ps.rpc, ps.pubsub, ps.faucet>>
      \o [i \in 1..(ps.gossip_range[2] - ps.gossip_range[1] + 1) |->
            ps.gossip_range[1] + i - 1]

PortsOf(ps) == Range(PortList(ps))

(* find_ports' candidate for a random base port. *)
Layout(base) ==
    [rpc |-> base, pubsub |-> base + 1, faucet |-> base + 2,
     gossip_range |-> <<base + 3, base + 3 + GossipSpan>>]

(* The sockets TestValidatorGenesis binds: rpc_port(p) sets the rpc ports *)
(* to (p, p + 1), so the pubsub socket is rpc + 1 whatever ps.pubsub is,   *)
(* and gossip_port(gossip_range.0).                                        *)
ValidatorPorts(ps) == {ps.rpc, ps.rpc + 1, ps.gossip_range[1]}

is_local_ipv4_port_free(p) == p \notin os_bound \cup ExternalPorts

is_port_available(p) == is_local_ipv4_port_free(p) /\ p \notin used_ports

(* The ports runner r has put in USED_PORTS and not yet freed.            *)
Held(r) ==
    CASE pc[r] = "marking" ->
            {PortList(ports[r])[i] : i \in 1..cursor[r]}
      [] pc[r] = "dropping" ->
            {PortList(ports[r])[i] : i \in (cursor[r] + 1)..Len(PortList(ports[r]))}
      [] pc[r] \in {"faucet", "starting", "warming", "ready"} ->
            PortsOf(ports[r])
      [] pc[r] = "failed" /\ ports[r] # NoPorts ->
            PortsOf(ports[r])
      [] OTHER -> {}

-----------------------------------------------------------------------------
Init ==
    /\ used_ports = {}
    /\ os_bound = {}
    /\ pc = [r \in Runner |-> "idle"]
    /\ ports = [r \in Runner |-> NoPorts]
    /\ attempts = [r \in Runner |-> 0]
    /\ cursor = [r \in Runner |-> 0]
    /\ ack = [r \in Runner |-> "none"]
    /\ copies = [r \in Runner |-> 0]

(* TestValidatorRunnerProps::builder().build(): the ports are given, or   *)
(* the default TestValidatorPorts::random_ports() calls find_ports.        *)
BuildProps(r) ==
    /\ pc[r] = "idle"
    /\ \/ \E ps \in ExplicitPorts :
            /\ ports' = [ports EXCEPT ![r] = ps]
            /\ pc' = [pc EXCEPT ![r] = "resolved"]
            /\ UNCHANGED attempts
       \/ /\ pc' = [pc EXCEPT ![r] = "finding"]
          /\ attempts' = [attempts EXCEPT ![r] = MaxAttempts]
          /\ UNCHANGED ports
    /\ UNCHANGED <<used_ports, os_bound, cursor, ack, copies>>

(* attempts -= 1 *)
AttemptsLeftNoDecrement(r) == attempts[r]

AttemptsLeft(r) == attempts[r] - 1

(* if attempts <= 0 { return None; } *)
OutOfAttemptsLate(n) == n < 0

OutOfAttempts(n) == n <= 0

(* One turn of find_ports' loop: attempts -= 1, a random base, every port *)
(* of its layout checked by is_port_available; return Some on success,    *)
(* None once attempts <= 0, which random_ports unwraps: a panic.          *)
FindPorts(r) ==
    /\ pc[r] = "finding"
    /\ attempts' = [attempts EXCEPT ![r] = AttemptsLeft(r)]
    /\ \E base \in PortMin..(PortMax - 1) :
         \/ /\ \A p \in PortsOf(Layout(base)) : is_port_available(p)
            /\ ports' = [ports EXCEPT ![r] = Layout(base)]
            /\ pc' = [pc EXCEPT ![r] = "resolved"]
         \/ /\ \E p \in PortsOf(Layout(base)) : ~ is_port_available(p)
            /\ ~ OutOfAttempts(AttemptsLeft(r))
            /\ UNCHANGED <<ports, pc>>
         \/ /\ \E p \in PortsOf(Layout(base)) : ~ is_port_available(p)
            /\ OutOfAttempts(AttemptsLeft(r))
            /\ pc' = [pc EXCEPT ![r] = "failed"]
            /\ UNCHANGED ports
    /\ UNCHANGED <<used_ports, os_bound, cursor, ack, copies>>


(* TestValidatorRunner::run(props): run_internal starts; the genesis and  *)
(* the faucet keypair are created without touching shared state.          *)
Run(r) ==
    /\ pc[r] = "resolved"
    /\ pc' = [pc EXCEPT ![r] = "marking"]
    /\ cursor' = [cursor EXCEPT ![r] = 0]
    /\ UNCHANGED <<used_ports, os_bound, ports, attempts, ack, copies>>

(* One mark_port_used call of run_internal: no availability check, the    *)
(* port is inserted whoever holds it.                                      *)
MarkPortUsed(r) ==
    /\ pc[r] = "marking"
    /\ cursor[r] < Len(PortList(ports[r]))
    /\ used_ports' = used_ports \cup {PortList(ports[r])[cursor[r] + 1]}
    /\ cursor' = [cursor EXCEPT ![r] = @ + 1]
    /\ UNCHANGED <<os_bound, pc, ports, attempts, ack, copies>>

(* unbounded() and run_local_faucet_with_port: the faucet thread starts.  *)
RunLocalFaucet(r) ==
    /\ pc[r] = "marking"
    /\ cursor[r] = Len(PortList(ports[r]))
    /\ pc' = [pc EXCEPT ![r] = "faucet"]
    /\ ack' = [ack EXCEPT ![r] = "none"]
    /\ UNCHANGED <<used_ports, os_bound, ports, attempts, cursor, copies>>

(* The faucet thread binds ports.faucet and sends Ok, sends the bind      *)
(* error, or dies first and the channel closes.  Its socket is never      *)
(* released: the thread outlives the runner.                               *)
FaucetReply(r) ==
    /\ pc[r] = "faucet"
    /\ ack[r] = "none"
    /\ \/ /\ is_local_ipv4_port_free(ports[r].faucet)
          /\ os_bound' = os_bound \cup {ports[r].faucet}
          /\ ack' = [ack EXCEPT ![r] = "ok"]
       \/ /\ ~ is_local_ipv4_port_free(ports[r].faucet)
          /\ ack' = [ack EXCEPT ![r] = "err"]
          /\ UNCHANGED os_bound
       \/ /\ ack' = [ack EXCEPT ![r] = "closed"]
          /\ UNCHANGED os_bound
    /\ UNCHANGED <<used_ports, pc, ports, attempts, cursor, copies>>

(* receiver.recv().expect(..).expect(..): a panic unless the faucet sent  *)
(* Ok; then the genesis is configured, without shared state.               *)
RecvFaucetAck(r) ==
    /\ pc[r] = "faucet"
    /\ ack[r] # "none"
    /\ pc' = [pc EXCEPT ![r] = IF ack[r] = "ok" THEN "starting" ELSE "failed"]
    /\ UNCHANGED <<used_ports, os_bound, ports, attempts, cursor, ack, copies>>

(* genesis.start_async().await binds the validator's sockets, or panics   *)
(* when one is taken; then SolanaRpcClient is built from its urls.         *)
StartAsync(r) ==
    /\ pc[r] = "starting"
    /\ \/ /\ \A p \in ValidatorPorts(ports[r]) : is_local_ipv4_port_free(p)
          /\ os_bound' = os_bound \cup ValidatorPorts(ports[r])
          /\ pc' = [pc EXCEPT ![r] = "warming"]
       \/ /\ \E p \in ValidatorPorts(ports[r]) : ~ is_local_ipv4_port_free(p)
          /\ pc' = [pc EXCEPT ![r] = "failed"]
          /\ UNCHANGED os_bound
    /\ UNCHANGED <<used_ports, ports, attempts, cursor, ack, copies>>

(* rpc.request_airdrop(..).await?: on success the runner is returned; on  *)
(* error run_internal returns early, dropping the validator, and run      *)
(* unwraps the error: a panic.  The marked ports stay in USED_PORTS.      *)
RequestAirdrop(r) ==
    /\ pc[r] = "warming"
    /\ \/ /\ pc' = [pc EXCEPT ![r] = "ready"]
          /\ copies' = [copies EXCEPT ![r] = 1]
          /\ UNCHANGED os_bound
       \/ /\ pc' = [pc EXCEPT ![r] = "failed"]
          /\ os_bound' = os_bound \ ValidatorPorts(ports[r])
          /\ UNCHANGED copies
    /\ UNCHANGED <<used_ports, ports, attempts, cursor, ack>>

(* #[derive(Clone)]: a further handle value; every one of them runs Drop. *)
CloneRunner(r) ==
    /\ pc[r] = "ready"
    /\ copies[r] < MaxCopies
    /\ copies' = [copies EXCEPT ![r] = @ + 1]
    /\ UNCHANGED <<used_ports, os_bound, pc, ports, attempts, cursor, ack>>

(* A handle value goes out of scope: Drop::drop starts. *)
DropRunner(r) ==
    /\ pc[r] = "ready"
    /\ copies[r] > 0
    /\ pc' = [pc EXCEPT ![r] = "dropping"]
    /\ cursor' = [cursor EXCEPT ![r] = 0]
    /\ UNCHANGED <<used_ports, os_bound, ports, attempts, ack, copies>>

(* One free_port call of Drop::drop. *)
FreePort(r) ==
    /\ pc[r] = "dropping"
    /\ cursor[r] < Len(PortList(ports[r]))
    /\ used_ports' = used_ports \ {PortList(ports[r])[cursor[r] + 1]}
    /\ cursor' = [cursor EXCEPT ![r] = @ + 1]
    /\ UNCHANGED <<os_bound, pc, ports, attempts, ack, copies>>

(* The gossip loop of Drop::drop written with `..`: one port short. *)
FreedAllShort(r) == cursor[r] >= Len(PortList(ports[r])) - 1

FreedAll(r) == cursor[r] = Len(PortList(ports[r]))

(* The sockets released when a handle value is dropped: dropping the     *)
(* Arc<TestValidator> of the last value shuts the validator down.         *)
ReleasedSocketsEveryDrop(r) == ValidatorPorts(ports[r])

ReleasedSockets(r) == IF copies[r] = 1 THEN ValidatorPorts(ports[r]) ELSE {}

(* Drop::drop returns and the fields of the handle value are dropped. *)
DropDone(r) ==
    /\ pc[r] = "dropping"
    /\ FreedAll(r)
    /\ copies' = [copies EXCEPT ![r] = @ - 1]
    /\ os_bound' = os_bound \ ReleasedSockets(r)
    /\ pc' = [pc EXCEPT ![r] = IF copies[r] = 1 THEN "done" ELSE "ready"]
    /\ UNCHANGED <<used_ports, ports, attempts, cursor, ack>>

Next ==
    \E r \in Runner :
        \/ BuildProps(r) \/ FindPorts(r) \/ Run(r) \/ MarkPortUsed(r)
        \/ RunLocalFaucet(r) \/ FaucetReply(r) \/ RecvFaucetAck(r)
        \/ StartAsync(r) \/ RequestAirdrop(r)
        \/ CloneRunner(r) \/ DropRunner(r) \/ FreePort(r) \/ DropDone(r)

Spec == Init /\ [][Next]_vars

(* Every step the code takes by itself, and every answer of the faucet,   *)
(* the validator and the airdrop, eventually happens; building props,     *)
(* running them, cloning and dropping are the tests' choice.               *)
Fairness ==
    \A r \in Runner :
        /\ WF_vars(FindPorts(r)) /\ WF_vars(MarkPortUsed(r))
        /\ WF_vars(RunLocalFaucet(r)) /\ WF_vars(FaucetReply(r))
        /\ WF_vars(RecvFaucetAck(r)) /\ WF_vars(StartAsync(r))
        /\ WF_vars(RequestAirdrop(r)) /\ WF_vars(FreePort(r))
        /\ WF_vars(DropDone(r))

FairSpec == Spec /\ Fairness

-----------------------------------------------------------------------------
TypeOK ==
    /\ used_ports \subseteq Port
    /\ os_bound \subseteq Port
    /\ pc \in [Runner -> States]
    /\ ports \in [Runner -> PortSet \cup {NoPorts}]
    /\ attempts \in [Runner -> 0..MaxAttempts]
    /\ cursor \in [Runner -> Nat]
    /\ ack \in [Runner -> {"none", "ok", "err", "closed"}]
    /\ copies \in [Runner -> 0..MaxCopies]

(* Every port in USED_PORTS was marked by a runner that has not freed it: *)
(* no test leaves a reservation behind once its Drop has run, whatever    *)
(* the other runners did to the same ports in between.                     *)
RegistryAccounted ==
    \A p \in used_ports : \E r \in Runner : p \in Held(r)

(* While a runner's validator is up, the sockets of its faucet and of its *)
(* validator stay bound: no other runner's failure or shutdown released   *)
(* them.                                                                   *)
ServicesBoundWhileLive ==
    \A r \in Runner :
        pc[r] \in {"warming", "ready", "dropping"} =>
            ValidatorPorts(ports[r]) \cup {ports[r].faucet} \subseteq os_bound

(* A search for ports ends, in a port set or a panic; a started runner    *)
(* ends ready or panicked (given answers from faucet, validator, airdrop).*)
StartupSettles ==
    \A r \in Runner :
        /\ pc[r] = "finding" ~> pc[r] \in {"resolved", "failed"}
        /\ pc[r] = "marking" ~> pc[r] \in {"ready", "failed"}

(* Two runners never hold the same port in USED_PORTS at once (spec:      *)
(* concurrent allocations never yield two live port sets sharing a port). *)
NoDoubleReservation ==
    \A r, s \in Runner : r # s => Held(r) \cap Held(s) = {}

(* Every port of a live runner is in USED_PORTS (spec: the handle owns    *)
(* its reserved ports until it is released).                               *)
RegistryCoversLive ==
    \A r \in Runner :
        pc[r] \in {"faucet", "starting", "warming", "ready"} =>
            PortsOf(ports[r]) \subseteq used_ports

(* A runner whose start-up failed leaves no port reserved that no other   *)
(* runner holds (spec: resource release on every exit path).               *)
NoLeakOnFailure ==
    \A r \in Runner :
        pc[r] = "failed" =>
            \A p \in Held(r) \cap used_ports :
                \E s \in Runner \ {r} : p \in Held(s)

(* Every socket a running validator bound is a port its runner reserved   *)
(* in USED_PORTS, so no find_ports of another test can hand it out (the   *)
(* struct's comment: the second port is the pubsub_port).  run_internal   *)
(* marks ports.pubsub, but rpc_port(ports.rpc) binds ports.rpc + 1.        *)
ValidatorSocketsReserved ==
    \A r \in Runner :
        pc[r] \in {"warming", "ready"} =>
            ValidatorPorts(ports[r]) \subseteq used_ports
========================================================================
