------------------------------- MODULE Access -------------------------------
(***************************************************************************)
(* Gate access of one tenant at one facility (apps/web/lib/access): the    *)
(* grant and its state machine, the credentials on it, the command outbox  *)
(* and the controller.  provisionAccessForLease, the delinquency gate,     *)
(* move-out and the portal run as callers whose database statements        *)
(* interleave; drains send the queued commands and record the outcome.     *)
(***************************************************************************)
EXTENDS Naturals, Sequences, FiniteSets

CONSTANTS Pin,          \* gate codes the tenant may be issued
          Key,          \* mobile keys the tenant may be issued
          Caller,       \* requests, consumers and jobs that move the grant
          Drain,        \* runs of drainGateCommands
          MaxAttempts,  \* MAX_ATTEMPTS
          MaxRequests,  \* bound: how much happens to the tenant
          MaxFaults,    \* bound: how many sends fail or processes die
          NoCred        \* not a credential

Credential == Pin \cup Key

ASSUME CredAssumption == NoCred \notin Credential /\ Pin \cap Key = {} /\ IsFiniteSet(Pin)
ASSUME AttemptsAssumption == MaxAttempts \in Nat \ {0}
ASSUME BoundAssumption == MaxRequests \in Nat /\ MaxFaults \in Nat

VARIABLES lease,        \* the tenancy at the facility: running or ended
          owes,         \* is the tenant late enough to be suspended, or settled?
          grant,        \* AccessGrant.state, "none" before there is a row
          version,      \* AccessGrant.updatedAt
          credential,   \* AccessCredential.state
          commands,     \* the GateCommand rows by createdAt
          gate,         \* the controller: SimulatedGateCode.active
          caller,       \* where each caller is
          drain,        \* where each drain is
          requests, faults,  \* the bounds' counters
          delivered,    \* ghost: the commands the controller has taken
          slips         \* ghost: what has gone wrong between the grant and the queue

vars == <<lease, owes, grant, version, credential, commands, gate, caller,
          drain, requests, faults, delivered, slips>>

tenancy == <<lease, owes, requests>>
queue == <<commands, gate, drain, delivered>>

GrantState == {"none", "pending", "active", "suspended", "revoked"}

GrantCommand == {"grant_access", "resume_access", "suspend_access", "revoke_access"}

CallerStep == {"idle", "judge", "count", "read", "write", "queue",
               "mint", "issue", "send", "retract"}

Call(step, to, pool) == [step |-> step, to |-> to, from |-> "none", seen |-> 0,
                         pool |-> pool, cred |-> NoCred]

Done == Call("idle", "none", "none")

\* A drain has the attempts of each command as it read them with its batch.
Resting == [step |-> "idle", batch |-> << >>, ok |-> FALSE]

\* The variables have their types; no two commands have one idempotency key, so
\* that callers who decide the same thing from the same row ask for it once; and
\* no command is tried more often, by its own count, than MAX_ATTEMPTS.
TypeOK ==
    /\ lease \in {"running", "ended"}
    /\ owes \in BOOLEAN
    /\ grant \in GrantState
    /\ version \in Nat
    /\ credential \in [Credential -> {"none", "active", "revoked"}]
    /\ commands \in Seq([type : GrantCommand \cup {"set_credential", "revoke_credential"},
                         about : Nat \cup Credential,
                         status : {"pending", "failed", "succeeded", "dead_lettered"},
                         attempts : 0..MaxAttempts])
    /\ \A i, j \in DOMAIN commands :
          commands[i].type = commands[j].type /\ commands[i].about = commands[j].about => i = j
    /\ gate \in [Credential -> {"absent", "open", "shut"}]
    /\ caller \in [Caller -> [step : CallerStep, to : GrantState, from : GrantState,
                              seen : Nat, pool : {"none", "pin", "key"},
                              cred : Credential \cup {NoCred}]]
    /\ \A d \in Drain : /\ drain[d].step \in {"idle", "sending", "recording"}
                        /\ DOMAIN drain[d].batch \subseteq DOMAIN commands
                        /\ \A i \in DOMAIN drain[d].batch :
                              drain[d].batch[i] \in 0..(MaxAttempts - 1)
    /\ requests \in 0..MaxRequests
    /\ faults \in 0..MaxFaults
    /\ delivered \subseteq DOMAIN commands
    /\ slips \subseteq {"raced", "lost", "overtaken"}

\* The tenant's first move-in has been committed; nothing has been provisioned.
Init == /\ lease = "running"
        /\ owes = FALSE
        /\ grant = "none"
        /\ version = 0
        /\ credential = [c \in Credential |-> "none"]
        /\ commands = << >>
        /\ gate = [c \in Credential |-> "absent"]
        /\ caller = [p \in Caller |-> Done]
        /\ drain = [d \in Drain |-> Resting]
        /\ requests = 0
        /\ faults = 0
        /\ delivered = {}
        /\ slips = {}

-----------------------------------------------------------------------------
\* Mutant: a revoked grant may be made active again.
CanTransitionMutant(from, to) ==
    \/ from \in {"pending", "suspended", "revoked"} /\ to \in {"active", "revoked"}
    \/ from = "active" /\ to \in {"suspended", "revoked"}

\* ALLOWED: the moves of the grant's state machine.
CanTransition(from, to) ==
    \/ from = "pending" /\ to \in {"active", "revoked"}
    \/ from = "active" /\ to \in {"suspended", "revoked"}
    \/ from = "suspended" /\ to \in {"active", "revoked"}

OpensGate(state) == state = "active"

CommandFor(from, to) ==
    IF to = "active" THEN IF from = "suspended" THEN "resume_access" ELSE "grant_access"
    ELSE IF to = "suspended" THEN "suspend_access" ELSE "revoke_access"

Fresh(type, about) == [type |-> type, about |-> about, status |-> "pending", attempts |-> 0]

\* Mutant: a duplicate is queued again.
EnqueueMutant(queued, type, about) == Append(queued, Fresh(type, about))

\* enqueueCommand: the idempotency key is the command's type and what it is
\* about, a credential or a version of the grant; a duplicate is skipped.
Enqueue(queued, type, about) ==
    IF \E i \in DOMAIN queued : queued[i].type = type /\ queued[i].about = about
    THEN queued
    ELSE Append(queued, Fresh(type, about))

Pool(name) == IF name = "pin" THEN Pin ELSE Key

Live(pool) == {c \in pool : credential[c] = "active"}

Unused(pool) == {c \in pool : credential[c] = "none"}

Goto(p, state) == caller' = [caller EXCEPT ![p] = state]

\* Something happens to the tenant, and there was room for it to happen.
Request == requests < MaxRequests /\ requests' = requests + 1

-----------------------------------------------------------------------------
\* The tenant comes back, pays, falls behind.
MoveIn == /\ Request
          /\ lease = "ended"
          /\ lease' = "running"
          /\ UNCHANGED <<owes, grant, version, credential, queue, caller, faults, slips>>

\* Between the two there is a debt for which gateDecision leaves the grant as it
\* is (a part payment, a hold, a debit that is settling): for the grant, a night
\* without an evaluation.
DebtChanges == /\ Request
               /\ lease = "running"
               /\ owes' = ~owes
               /\ UNCHANGED <<lease, grant, version, credential, queue, caller, faults, slips>>

\* provisionAccessForLease, called by checkout and by the consumer of
\* lease.moved_in: looks the lease up by its id, ended or not, and ensures the
\* grant, of which the unique index allows one per tenant and facility.
Provision(p) ==
    /\ Request
    /\ caller[p].step = "idle"
    /\ grant' = IF grant = "none" THEN "pending" ELSE grant
    /\ Goto(p, Call("read", "active", "pin"))
    /\ UNCHANGED <<lease, owes, version, credential, queue, faults, slips>>

\* evaluateAccessSuspensions and restoreAccessIfSettled: the tenant's debt is
\* read first and the grant afterwards.
Evaluate(p) ==
    /\ caller[p].step = "idle"
    /\ lease = "running"
    /\ grant \in {"active", "suspended"}
    /\ Goto(p, Call("judge", IF owes THEN "suspended" ELSE "active", "none"))
    /\ UNCHANGED <<tenancy, grant, version, credential, queue, faults, slips>>

\* The move-out ends the lease in its transaction and looks after the gate once
\* that is committed: revokeAccessIfLastLease.
MoveOut(p) ==
    /\ Request
    /\ caller[p].step = "idle"
    /\ lease = "running"
    /\ lease' = "ended"
    /\ Goto(p, Call("count", "revoked", "none"))
    /\ UNCHANGED <<owes, grant, version, credential, queue, faults, slips>>

\* The caller's own condition on what it is about to do: gateDecision on the
\* grant as it is now and the debt as it was read, or the count of leases.
Wants(p) == CASE caller[p].step = "read" -> TRUE
              [] caller[p].step = "judge" -> caller[p].to = "active" => grant = "suspended"
              [] caller[p].step = "count" -> lease = "ended"

\* transitionGrant reads the grant; an illegal move, or none, ends it.
ReadGrant(p) ==
    /\ caller[p].step \in {"read", "judge", "count"}
    /\ Goto(p, IF Wants(p) /\ CanTransition(grant, caller[p].to)
               THEN [caller[p] EXCEPT !.step = "write", !.from = grant, !.seen = version]
               ELSE IF caller[p].pool = "none" THEN Done
               ELSE Call("mint", "none", caller[p].pool))
    /\ UNCHANGED <<tenancy, grant, version, credential, queue, faults, slips>>

\* ... updates it by its id alone ...
WriteGrant(p) ==
    /\ caller[p].step = "write"
    /\ grant' = caller[p].to
    /\ version' = version + 1
    /\ slips' = IF caller[p].seen = version THEN slips ELSE slips \cup {"raced"}
    /\ Goto(p, [caller[p] EXCEPT !.step = "queue"])
    /\ UNCHANGED <<tenancy, credential, queue, faults>>

\* Mutant: the key has the state the grant moves to, not the version it left.
QueuedMutant(p) == Enqueue(commands, CommandFor(caller[p].from, caller[p].to), 0)

\* The command's key is the grant, where it moves to and the updatedAt read.
Queued(p) == Enqueue(commands, CommandFor(caller[p].from, caller[p].to), caller[p].seen)

\* ... and queues the command.
QueueTransition(p) ==
    /\ caller[p].step = "queue"
    /\ commands' = Queued(p)
    /\ slips' = IF caller[p].seen + 1 = version THEN slips ELSE slips \cup {"raced"}
    /\ Goto(p, IF caller[p].pool = "none" THEN Done ELSE Call("mint", "none", caller[p].pool))
    /\ UNCHANGED <<tenancy, grant, version, credential, gate, drain, delivered, faults>>

-----------------------------------------------------------------------------
\* provisionAccessForLease mints a code unless the grant has a live one.
Mint(p) ==
    /\ caller[p].step = "mint"
    /\ Goto(p, IF Live(Pin) = {} THEN [caller[p] EXCEPT !.step = "issue"] ELSE Done)
    /\ UNCHANGED <<tenancy, grant, version, credential, queue, faults, slips>>

\* enrollMobileKey: not on a revoked grant, and one key at a time.
Enroll(p) ==
    /\ Request
    /\ caller[p].step = "idle"
    /\ grant \notin {"none", "revoked"}
    /\ Live(Key) = {}
    /\ Goto(p, Call("issue", "none", "key"))
    /\ UNCHANGED <<lease, owes, grant, version, credential, queue, faults, slips>>

\* issueCredential creates the row and then queues set_credential.
Issue(p) ==
    LET pool == Pool(caller[p].pool) IN
    /\ caller[p].step = "issue"
    /\ IF Unused(pool) = {} THEN Goto(p, Done) /\ UNCHANGED credential
       ELSE \E c \in Unused(pool) :
              /\ credential' = [credential EXCEPT ![c] = "active"]
              /\ Goto(p, [caller[p] EXCEPT !.step = "send", !.cred = c])
    /\ UNCHANGED <<tenancy, grant, version, queue, faults, slips>>

SendCredential(p) ==
    /\ caller[p].step = "send"
    /\ commands' = Enqueue(commands, "set_credential", caller[p].cred)
    /\ Goto(p, Done)
    /\ UNCHANGED <<tenancy, grant, version, credential, gate, drain, delivered, faults, slips>>

\* revokeMobileKey finds the live key, marks it revoked and queues the command.
LosePhone(p) ==
    /\ Request
    /\ caller[p].step = "idle"
    /\ grant # "revoked"
    /\ \E c \in Live(Key) :
         /\ credential' = [credential EXCEPT ![c] = "revoked"]
         /\ Goto(p, [Call("retract", "none", "none") EXCEPT !.cred = c])
    /\ UNCHANGED <<lease, owes, grant, version, queue, faults, slips>>

Retract(p) ==
    /\ caller[p].step = "retract"
    /\ commands' = Enqueue(commands, "revoke_credential", caller[p].cred)
    /\ Goto(p, Done)
    /\ UNCHANGED <<tenancy, grant, version, credential, gate, drain, delivered, faults, slips>>

\* replaceGateCode: the live codes are revoked and a new one issued in one
\* transaction.
ReplaceCode(p) ==
    /\ Request
    /\ caller[p].step = "idle"
    /\ grant \notin {"none", "revoked"}
    /\ Live(Pin) # {} /\ Unused(Pin) # {}
    /\ \E new \in Unused(Pin), old \in [1..Cardinality(Live(Pin)) -> Live(Pin)] :
         /\ \A c \in Live(Pin) : \E i \in DOMAIN old : old[i] = c
         /\ credential' = [c \in Credential |-> IF c \in Live(Pin) THEN "revoked"
                                              ELSE IF c = new THEN "active" ELSE credential[c]]
         /\ commands' = Enqueue(commands \o [i \in DOMAIN old |->
                                               Fresh("revoke_credential", old[i])],
                                "set_credential", new)
    /\ UNCHANGED <<lease, owes, grant, version, gate, caller, drain, delivered, faults, slips>>

-----------------------------------------------------------------------------
Pending == {i \in DOMAIN commands : commands[i].status = "pending"}

Failed == {i \in DOMAIN commands : commands[i].status = "failed"}

\* Mutant: a failed command is not looked at again.
BatchMutant(late) == Pending

\* What a drain finds due: the pending commands, and the failed ones of which
\* nextAttemptAt has come.
Batch(late) == Pending \cup late

\* drainGateCommands reads its batch and claims none of it.
StartDrain(d, late) ==
    /\ drain[d].step = "idle"
    /\ Batch(late) # {}
    /\ drain' = [drain EXCEPT ![d] = [step |-> "sending", ok |-> FALSE,
                    batch |-> [i \in Batch(late) |-> commands[i].attempts]]]
    /\ UNCHANGED <<tenancy, grant, version, credential, commands, gate, caller,
                   faults, delivered, slips>>

\* The command a drain is at: it works through its batch by createdAt.
At(d, i) == i \in DOMAIN drain[d].batch /\ \A j \in DOMAIN drain[d].batch : i <= j

\* applyToSimulatedController.  A new code opens if the grant is active now; a
\* command about the grant flips every row of every credential it ever had.
Applied(i) ==
    LET command == commands[i] IN
    [c \in Credential |->
        CASE command.type = "set_credential" /\ command.about = c ->
                 IF OpensGate(grant) THEN "open" ELSE "shut"
          [] gate[c] # "absent" /\ command.type = "revoke_credential" /\ command.about = c -> "shut"
          [] gate[c] # "absent" /\ command.type \in {"grant_access", "resume_access"} -> "open"
          [] gate[c] # "absent" /\ command.type \in {"suspend_access", "revoke_access"} -> "shut"
          [] OTHER -> gate[c]]

\* The send is taken by the controller, or fails because it is out of reach.
Send(d, ok) ==
    /\ drain[d].step = "sending"
    /\ IF ok THEN UNCHANGED faults ELSE faults < MaxFaults /\ faults' = faults + 1
    /\ \E i \in DOMAIN drain[d].batch :
         /\ At(d, i)
         /\ gate' = IF ok THEN Applied(i) ELSE gate
         /\ delivered' = IF ok THEN delivered \cup {i} ELSE delivered
         /\ slips' = IF /\ ok
                        /\ commands[i].type \in GrantCommand
                        /\ \E j \in delivered : j > i /\ commands[j].type \in GrantCommand
                     THEN slips \cup {"overtaken"} ELSE slips
    /\ drain' = [drain EXCEPT ![d] = [@ EXCEPT !.step = "recording", !.ok = ok]]
    /\ UNCHANGED <<tenancy, grant, version, credential, commands, caller>>

\* Mutant: giving up is taken for being done.
OutcomeMutant(ok, attempts) == IF ok \/ attempts >= MaxAttempts THEN "succeeded" ELSE "failed"

\* What becomes of a command after an attempt.
Outcome(ok, attempts) ==
    IF ok THEN "succeeded" ELSE IF attempts >= MaxAttempts THEN "dead_lettered" ELSE "failed"

\* The outcome is written over the row, with the attempts counted from the batch.
Record(d) ==
    /\ drain[d].step = "recording"
    /\ \E i \in DOMAIN drain[d].batch :
         LET attempts == drain[d].batch[i] + 1
             rest == DOMAIN drain[d].batch \ {i} IN
         /\ At(d, i)
         /\ commands' = [commands EXCEPT ![i] = [@ EXCEPT
                !.attempts = attempts, !.status = Outcome(drain[d].ok, attempts)]]
         /\ drain' = [drain EXCEPT ![d] =
                IF rest = {} THEN Resting
                ELSE [step |-> "sending", ok |-> FALSE,
                      batch |-> [j \in rest |-> drain[d].batch[j]]]]
    /\ UNCHANGED <<tenancy, grant, version, credential, gate, caller, faults, delivered, slips>>

-----------------------------------------------------------------------------
\* The steps before which a caller owes the queue a command.
OwesCommand(p) == caller[p].step \in {"queue", "send", "retract"}

\* A process dies.  No caller comes back to a command it had not queued.
CallerDies(p) ==
    /\ faults < MaxFaults
    /\ caller[p].step # "idle"
    /\ faults' = faults + 1
    /\ slips' = IF OwesCommand(p) THEN slips \cup {"lost"} ELSE slips
    /\ Goto(p, Done)
    /\ UNCHANGED <<tenancy, grant, version, credential, queue>>

DrainDies(d) ==
    /\ faults < MaxFaults
    /\ drain[d].step # "idle"
    /\ faults' = faults + 1
    /\ drain' = [drain EXCEPT ![d] = Resting]
    /\ UNCHANGED <<tenancy, grant, version, credential, commands, gate, caller, delivered, slips>>

\* A caller goes on with what it is doing.
Continue(p) ==
    \/ ReadGrant(p) \/ WriteGrant(p) \/ QueueTransition(p)
    \/ Mint(p) \/ Issue(p) \/ SendCredential(p)
    \/ Retract(p)

Begin(p) == Provision(p) \/ MoveOut(p) \/ Enroll(p) \/ LosePhone(p) \/ ReplaceCode(p)

Next == \/ MoveIn \/ DebtChanges
        \/ \E p \in Caller : Begin(p) \/ Evaluate(p) \/ Continue(p) \/ CallerDies(p)
        \/ \E d \in Drain : \/ \E late \in SUBSET Failed : StartDrain(d, late)
                            \/ \E ok \in BOOLEAN : Send(d, ok)
                            \/ Record(d) \/ DrainDies(d)

Spec == Init /\ [][Next]_vars

\* A live process goes on, and access.drain-commands comes round again when the
\* longest backoff is over.
Fairness == /\ \A p \in Caller : WF_vars(Continue(p))
            /\ \A d \in Drain : /\ WF_vars(Send(d, TRUE)) /\ WF_vars(Record(d))
                                /\ SF_vars(StartDrain(d, Failed))

FairSpec == Spec /\ Fairness

-----------------------------------------------------------------------------
\* Nothing is on its way: no caller is at work and every command has ended.
Calm == /\ \A p \in Caller : caller[p].step = "idle"
        /\ \A d \in Drain : drain[d].step = "idle"
        /\ Pending = {} /\ Failed = {}

AllTaken == \A i \in DOMAIN commands : commands[i].status = "succeeded"

\* When nothing is on its way, every live code opens the gate exactly if the
\* grant is active -- unless a command was given up for dead (which alerts the
\* staff), or a process died owing the queue a command, or two transitions of
\* the grant raced, or a retry overtook a later command.  That is the list of
\* everything that makes reconciliation find drift on a live code.
DriftHasACause ==
    Calm /\ AllTaken /\ slips = {} =>
        \A c \in Credential : credential[c] = "active" =>
            gate[c] = (IF OpensGate(grant) THEN "open" ELSE "shut")

\* A command that reads as succeeded was taken by the controller, whichever of
\* two drains wrote the row last.
SuccessIsReal == \A i \in DOMAIN commands : commands[i].status = "succeeded" => i \in delivered

\* transitionGrant's comment: a revoked grant cannot be revived.  The state
\* machine keeps this against every caller that is told to, except one that had
\* already read the grant when it was revoked.
RevivalNeedsARace == [][grant = "revoked" => grant' = "revoked" \/ "raced" \in slips']_vars

\* The queue is eventually drained: a retry is not forgotten, and two drains that
\* overwrite each other's rows do not keep a command going for ever.
QueueDrains == (Pending \cup Failed # {}) ~> (Pending \cup Failed = {})

\* The comment in reconciliation.ts: "A live grant with a revoked credential
\* must not open the gate".
WithdrawnStaysShut ==
    Calm /\ AllTaken => \A c \in Credential : credential[c] = "revoked" => gate[c] # "open"

\* PRD 03 FR-3: "per-facility FIFO ordering; ... commands superseded by newer
\* state for the same grant are collapsed (revoke beats suspend)".
RevokeBeatsAll ==
    \A i \in delivered : commands[i].type = "revoke_access" =>
        \A c \in Credential : gate[c] # "open"

\* The comment in grant-state.ts: "A tenant who comes back gets a new grant
\* rather than a resurrected one".
ReturningTenantGetsAGrant ==
    \A p \in Caller : caller[p].step = "mint" /\ caller[p].pool = "pin" /\ lease = "running" =>
        grant # "revoked"
=============================================================================
