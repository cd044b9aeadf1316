----------------------------- MODULE RuntimeReload -----------------------------
(***************************************************************************)
(* Hot reload of a running dynet process, and the sessions that select a   *)
(* route and dial while it happens.                                        *)
(*                                                                         *)
(* A reload (RuntimeReload::reload) holds the async mutex around the       *)
(* current configuration from start to end, but what it publishes it       *)
(* publishes piece by piece, under one lock per piece: the egress map, the *)
(* SQLite mirror (an await), the routing snapshot, the TUN timeouts, the   *)
(* audit status, the audit ring.  Sessions run between any two of those    *)
(* steps: RuntimeState::select reads the routing snapshot, and the egress  *)
(* map is read later, when the session dials.                              *)
(*                                                                         *)
(* A configuration is a record of the three parts plan_reload tells apart: *)
(* fields that need a restart, the TUN timeouts, and the forwarding        *)
(* section.  A routing table and a compiled graph are named by the         *)
(* forwarding value they were built from.                                  *)
(***************************************************************************)
EXTENDS ReloadableEgress, Sequences

CONSTANTS
  Reloaders,      \* tasks that call reload: the signal task, other holders of the handle
  Sessions,       \* ingress sessions
  Configs,        \* configurations the file may hold
  Buildable,      \* forwarding values whose GraphEgress::try_from succeeds
  InvalidFile,    \* a file that does not parse or validate
  NoConfig,       \* no candidate fingerprint in an audit record
  NoOne,          \* the mutex is free
  AuditLimit,     \* RELOAD_AUDIT_LIMIT, 128 in the code
  MaxRequests     \* bound: reload requests in one behaviour

ASSUME ReloadAssumption ==
  /\ AuditLimit \in Nat \ {0}
  /\ MaxRequests \in Nat
  /\ InvalidFile \notin Configs
  /\ NoConfig \notin Configs
  /\ NoOne \notin Reloaders
  /\ \A c \in Configs : DOMAIN c = {"static", "tun", "fwd"}

Forwards == {c.fwd : c \in Configs}
Tuns == {c.tun : c \in Configs}

VARIABLES
  file,       \* content of the configuration file
  requests,   \* reload requests so far
  pending,    \* reloaders for which a request (SIGHUP) waits
  lock,       \* holder of RuntimeReloadInner.current
  pc,         \* reloader -> next step of its reload
  cand,       \* reloader -> candidate it parsed
  previous,   \* reloader -> RuntimeReconfigure.previous_generation
  record,     \* reloader -> the audit record it is about to push on the ring
  current,    \* the configuration in the mutex
  routing,    \* RuntimeInner.routing: [gen, fwd]
  egress,     \* ReloadableEgress.inner
  store,      \* forwarding seed mirrored in SQLite
  tun,        \* the shared TUN timeouts
  status,     \* RuntimeConfigStatus: [gen, config, last]
  audits,     \* the ring of audit records
  nextId,     \* next_id of the audit
  phase,      \* session -> where it is
  decision,   \* session -> the generation and the routing it selected from
  graph       \* session -> the graph it relays through

reloadVars == <<pc, cand, previous, record>>
publishedVars == <<current, routing, egress, store, tun>>
auditVars == <<status, audits, nextId>>
sessionVars == <<phase, decision, graph>>
vars == <<file, requests, pending, lock, reloadVars, publishedVars, auditVars,
          sessionVars>>

Outcomes == {"applied", "no-op", "restart-required", "invalid", "failed"}
Steps == {"idle", "install", "persist", "commit", "tun", "status", "fail", "push"}
Phases == {"new", "selected", "relaying", "expired"}

-------------------------------------------------------------------------------
(* The initial state is a process that has started from configuration c:    *)
(* from_store_seed has replaced the mirror and published generation 1, and  *)
(* RuntimeReload::new has compiled the first graph.                         *)
Start(c) ==
  /\ c.fwd \in Buildable
  /\ file = c
  /\ requests = 0
  /\ pending = {}
  /\ lock = NoOne
  /\ pc = [r \in Reloaders |-> "idle"]
  /\ cand = [r \in Reloaders |-> c]
  /\ previous = [r \in Reloaders |-> 1]
  /\ record = [r \in Reloaders |-> [outcome |-> "no-op", cand |-> c,
                                     before |-> 1, after |-> 1]]
  /\ current = c
  /\ routing = [gen |-> 1, fwd |-> c.fwd]
  /\ egress = NewEgress(1, c.fwd)
  /\ store = c.fwd
  /\ tun = c.tun
  /\ status = [gen |-> 1, config |-> c, last |-> "none"]
  /\ audits = <<>>
  /\ nextId = 0
  /\ phase = [s \in Sessions |-> "new"]
  /\ decision = [s \in Sessions |-> [gen |-> 1, fwd |-> c.fwd]]
  /\ graph = [s \in Sessions |-> c.fwd]

Init == \E c \in Configs : Start(c)

(* The operator replaces the file, at any time.                              *)
Edit ==
  /\ file' \in Configs \cup {InvalidFile}
  /\ UNCHANGED <<requests, pending, lock, reloadVars, publishedVars, auditVars,
                 sessionVars>>

(* A SIGHUP, or a call of reload: requests for one reloader that arrive      *)
(* before it has taken the last one coalesce.                                *)
Request(r) ==
  /\ requests < MaxRequests
  /\ requests' = requests + 1
  /\ pending' = pending \cup {r}
  /\ UNCHANGED <<file, lock, reloadVars, publishedVars, auditVars, sessionVars>>

-------------------------------------------------------------------------------

(* ReloadPlan::new over the fields plan_reload compares.                     *)
Disposition(old, new) ==
  CASE new = old               -> "no-op"
    [] new.static # old.static -> "restart-required"
    [] OTHER                   -> "apply"

(* RuntimeConfigAudit::record_unchanged, up to the push: the status keeps    *)
(* its generation.  A record names its candidate unless the reload could not *)
(* read one or failed.                                                       *)
RecordUnchanged(r, result, candidate) ==
  /\ status' = [status EXCEPT !.last = result]
  /\ record' = [record EXCEPT ![r] = [outcome |-> result, cand |-> candidate,
                                     before |-> status.gen, after |-> status.gen]]
  /\ pc' = [pc EXCEPT ![r] = "push"]

(* Mutant of MutexFree: reload without the mutex around `current`.           *)
MutexIgnored == TRUE

(* inner.current.lock().await returns.                                       *)
MutexFree == lock = NoOne

(* reload from the mutex to its first await: parse, plan, and either record  *)
(* the refusal or prepare_reconfigure.                                       *)
Begin(r) ==
  /\ r \in pending
  /\ pc[r] = "idle"
  /\ MutexFree
  /\ pending' = pending \ {r}
  /\ lock' = r
  /\ IF file = InvalidFile
       THEN RecordUnchanged(r, "invalid", NoConfig) /\ UNCHANGED <<cand, previous>>
       ELSE LET plan == Disposition(current, file) IN
            /\ cand' = [cand EXCEPT ![r] = file]
            /\ IF plan = "apply"
                 THEN /\ previous' = [previous EXCEPT ![r] = routing.gen]
                      /\ pc' = [pc EXCEPT ![r] = "install"]
                      /\ UNCHANGED <<status, record>>
                 ELSE RecordUnchanged(r, plan, file) /\ UNCHANGED previous
  /\ UNCHANGED <<file, requests, publishedVars, audits, nextId, sessionVars>>

(* prepared.generation().                                                    *)
Generation(r) == previous[r] + 1

(* egress.install: a graph that does not compile fails the reload.           *)
InstallGraph(r) ==
  /\ pc[r] = "install"
  /\ IF cand[r].fwd \in Buildable
       THEN /\ egress' = Install(egress, Generation(r), cand[r].fwd)
            /\ pc' = [pc EXCEPT ![r] = "persist"]
       ELSE /\ pc' = [pc EXCEPT ![r] = "fail"]
            /\ UNCHANGED egress
  /\ UNCHANGED <<file, requests, pending, lock, cand, previous, record, current,
                 routing, store, tun, auditVars, sessionVars>>

(* store.replace_bootstrap commits its transaction.                          *)
ReplaceBootstrap(r) ==
  /\ pc[r] = "persist"
  /\ store' = cand[r].fwd
  /\ pc' = [pc EXCEPT ![r] = "commit"]
  /\ UNCHANGED <<file, requests, pending, lock, cand, previous, record, current,
                 routing, egress, tun, auditVars, sessionVars>>

(* Mutants of ReplaceBootstrapFails: no removal, or of the old generation.   *)
ReplaceBootstrapFailsKeeps(r) ==
  /\ pc[r] = "persist"
  /\ pc' = [pc EXCEPT ![r] = "fail"]
  /\ UNCHANGED <<file, requests, pending, lock, cand, previous, record,
                 publishedVars, auditVars, sessionVars>>

(* store.replace_bootstrap fails and its transaction rolls back; the graph   *)
(* that was installed for it is removed.                                     *)
ReplaceBootstrapFails(r) ==
  /\ pc[r] = "persist"
  /\ egress' = Remove(egress, Generation(r))
  /\ pc' = [pc EXCEPT ![r] = "fail"]
  /\ UNCHANGED <<file, requests, pending, lock, cand, previous, record, current,
                 routing, store, tun, auditVars, sessionVars>>

(* runtime.commit_reconfigure: compare-and-set of the routing snapshot under *)
(* its write lock.  On a conflict the graph is removed and the mirror is set *)
(* back, which may fail and is ignored.                                      *)
CommitReconfigure(r) ==
  /\ pc[r] = "commit"
  /\ IF routing.gen = previous[r]
       THEN /\ routing' = [gen |-> Generation(r), fwd |-> cand[r].fwd]
            /\ pc' = [pc EXCEPT ![r] = "tun"]
            /\ UNCHANGED <<egress, store>>
       ELSE /\ egress' = Remove(egress, Generation(r))
            /\ store' \in {store, current.fwd}
            /\ pc' = [pc EXCEPT ![r] = "fail"]
            /\ UNCHANGED routing
  /\ UNCHANGED <<file, requests, pending, lock, cand, previous, record, current,
                 tun, auditVars, sessionVars>>

(* The shared TUN timeouts and *current take the candidate.                  *)
WriteTun(r) ==
  /\ pc[r] = "tun"
  /\ tun' = cand[r].tun
  /\ current' = cand[r]
  /\ pc' = [pc EXCEPT ![r] = "status"]
  /\ UNCHANGED <<file, requests, pending, lock, cand, previous, record, routing,
                 egress, store, auditVars, sessionVars>>

(* Mutant of RecordApplied: the generation before is read after the commit.  *)
RecordAppliedReadsRouting(r) ==
  /\ pc[r] = "status"
  /\ status' = [gen |-> Generation(r), config |-> cand[r], last |-> "applied"]
  /\ record' = [record EXCEPT ![r] = [outcome |-> "applied", cand |-> cand[r],
                                     before |-> routing.gen, after |-> Generation(r)]]
  /\ pc' = [pc EXCEPT ![r] = "push"]
  /\ UNCHANGED <<file, requests, pending, lock, cand, previous, publishedVars,
                 audits, nextId, sessionVars>>

(* RuntimeConfigAudit::record_applied, up to the push.                       *)
RecordApplied(r) ==
  /\ pc[r] = "status"
  /\ status' = [gen |-> Generation(r), config |-> cand[r], last |-> "applied"]
  /\ record' = [record EXCEPT ![r] = [outcome |-> "applied", cand |-> cand[r],
                                     before |-> status.gen, after |-> Generation(r)]]
  /\ pc' = [pc EXCEPT ![r] = "push"]
  /\ UNCHANGED <<file, requests, pending, lock, cand, previous, publishedVars,
                 audits, nextId, sessionVars>>

(* Mutant of RecordFailed: an error returns without an audit record.         *)
FailSilently(r) ==
  /\ pc[r] = "fail"
  /\ pc' = [pc EXCEPT ![r] = "idle"]
  /\ lock' = NoOne
  /\ UNCHANGED <<file, requests, pending, cand, previous, record, publishedVars,
                 auditVars, sessionVars>>

(* RuntimeReload::failed.                                                    *)
RecordFailed(r) ==
  /\ pc[r] = "fail"
  /\ RecordUnchanged(r, "failed", NoConfig)
  /\ UNCHANGED <<file, requests, pending, lock, cand, previous, publishedVars,
                 audits, nextId, sessionVars>>

(* The ring drops its oldest record when it is full.                         *)
PushBack(ring, item) ==
  Append(IF Len(ring) = AuditLimit THEN Tail(ring) ELSE ring, item)

(* RuntimeConfigAudit::push; reload then returns and the mutex is released.  *)
Push(r) ==
  /\ pc[r] = "push"
  /\ nextId' = nextId + 1
  /\ audits' = PushBack(audits, [id |-> nextId + 1, body |-> record[r]])
  /\ pc' = [pc EXCEPT ![r] = "idle"]
  /\ lock' = NoOne
  /\ UNCHANGED <<file, requests, pending, cand, previous, record, publishedVars,
                 status, sessionVars>>

-------------------------------------------------------------------------------
(* RuntimeState::select: one snapshot of the routing, whose generation the   *)
(* decision carries.                                                         *)
Select(s) ==
  /\ phase[s] = "new"
  /\ phase' = [phase EXCEPT ![s] = "selected"]
  /\ decision' = [decision EXCEPT ![s] = routing]
  /\ UNCHANGED <<file, requests, pending, lock, reloadVars, publishedVars,
                 auditVars, graph>>

(* Mutant of DialGeneration: the newest generation is dialled.               *)
DialNewest(s) == routing.gen

(* The generation graph_for looks up: the decision's own.                    *)
DialGeneration(s) == decision[s].gen

(* handle_tcp / handle_udp: graph_for finds the graph, and the session keeps *)
(* it for its lifetime.                                                      *)
Dial(s) ==
  /\ phase[s] = "selected"
  /\ DialGeneration(s) \in DOMAIN egress
  /\ phase' = [phase EXCEPT ![s] = "relaying"]
  /\ graph' = [graph EXCEPT ![s] = egress[DialGeneration(s)]]
  /\ UNCHANGED <<file, requests, pending, lock, reloadVars, publishedVars,
                 auditVars, decision>>

(* graph_for answers "egress generation ... is no longer retained".          *)
DialExpired(s) ==
  /\ phase[s] = "selected"
  /\ DialGeneration(s) \notin DOMAIN egress
  /\ phase' = [phase EXCEPT ![s] = "expired"]
  /\ UNCHANGED <<file, requests, pending, lock, reloadVars, publishedVars,
                 auditVars, decision, graph>>

(* The session ends; the same name stands for the next one.                  *)
Finish(s) ==
  /\ phase[s] \in {"relaying", "expired"}
  /\ phase' = [phase EXCEPT ![s] = "new"]
  /\ UNCHANGED <<file, requests, pending, lock, reloadVars, publishedVars,
                 auditVars, decision, graph>>

-------------------------------------------------------------------------------
ReloadStep(r) ==
  \/ Begin(r)
  \/ InstallGraph(r)
  \/ ReplaceBootstrap(r)
  \/ ReplaceBootstrapFails(r)
  \/ CommitReconfigure(r)
  \/ WriteTun(r)
  \/ RecordApplied(r)
  \/ RecordFailed(r)
  \/ Push(r)

SessionStep(s) == Select(s) \/ Dial(s) \/ DialExpired(s) \/ Finish(s)

Next ==
  \/ Edit
  \/ \E r \in Reloaders : Request(r) \/ ReloadStep(r)
  \/ \E s \in Sessions : SessionStep(s)

Spec == Init /\ [][Next]_vars

(* Tokio keeps polling a runnable task, SQLite answers (it commits or fails), *)
(* and tokio's Mutex serves its waiters first come, first served: a reloader  *)
(* that waits while the mutex is free again and again gets it.                *)
FairSpec == Spec /\ \A r \in Reloaders : /\ WF_vars(ReloadStep(r))
                                        /\ SF_vars(Begin(r))

-------------------------------------------------------------------------------
Records == [outcome : Outcomes, cand : Configs \cup {NoConfig},
            before : Nat, after : Nat]
Decisions == [gen : Nat, fwd : Forwards]

Statuses == [gen : Nat, config : Configs, last : Outcomes \cup {"none"}]

RequestTypes ==
  /\ file \in Configs \cup {InvalidFile}
  /\ requests \in 0..MaxRequests
  /\ pending \subseteq Reloaders
  /\ lock \in Reloaders \cup {NoOne}

ReloadTypes ==
  /\ pc \in [Reloaders -> Steps]
  /\ cand \in [Reloaders -> Configs]
  /\ previous \in [Reloaders -> Nat]
  /\ record \in [Reloaders -> Records]

PublishedTypes ==
  /\ current \in Configs
  /\ routing \in Decisions
  /\ DOMAIN egress \subseteq Nat
  /\ egress \in [DOMAIN egress -> Forwards]
  /\ store \in Forwards
  /\ tun \in Tuns

AuditTypes ==
  /\ status \in Statuses
  /\ audits \in Seq([id : Nat, body : Records])
  /\ nextId \in Nat

SessionTypes ==
  /\ phase \in [Sessions -> Phases]
  /\ decision \in [Sessions -> Decisions]
  /\ graph \in [Sessions -> Forwards]

(* Type correctness of the reload controller, the audit and the sessions.    *)
TypeOK == RequestTypes /\ ReloadTypes /\ PublishedTypes /\ AuditTypes /\ SessionTypes

(* The compare-and-set in commit_reconfigure cannot fail: no other reload    *)
(* publishes between prepare_reconfigure and the commit, across the await on *)
(* SQLite, so its rollback of the mirror is never needed.                    *)
CommitNeverConflicts ==
  \A r \in Reloaders :
    pc[r] \in {"install", "persist", "commit"} => routing.gen = previous[r]

(* The generation that new sessions select has its own compiled graph in the *)
(* egress map, at every moment of a reload, of a failed one and of an        *)
(* eviction.                                                                 *)
CurrentRetained ==
  /\ routing.gen \in DOMAIN egress
  /\ egress[routing.gen] = routing.fwd

(* A session relays through the graph compiled from the routing it selected  *)
(* from, whatever reloads ran between select and graph_for: a generation     *)
(* number that a failed reload gave back is never seen with two graphs.      *)
SessionsKeepTheirGraph ==
  \A s \in Sessions : phase[s] = "relaying" => graph[s] = decision[s].fwd

(* A session is told that its generation is no longer retained only after    *)
(* Retained - 1 newer generations were published; one slot of the map may be *)
(* lost to a reload that failed.                                             *)
ExpiresOnlyWhenOld ==
  \A s \in Sessions :
    /\ phase[s] = "selected"
    /\ decision[s].gen \notin DOMAIN egress
    => routing.gen >= decision[s].gen + Retained - 1

(* The egress map holds at most Retained compiled graphs, and none of a      *)
(* generation beyond the one being installed.                                *)
EgressBounded ==
  /\ Cardinality(DOMAIN egress) <= Retained
  /\ \A g \in DOMAIN egress : g <= routing.gen + 1

(* A reload is all or nothing: when no reload holds the mutex, the routing,  *)
(* the newest graph, the SQLite mirror, the TUN timeouts and the reported    *)
(* status all come from one configuration, the one in the mutex.             *)
AllOrNothing ==
  lock = NoOne =>
    /\ routing.fwd = current.fwd
    /\ store = current.fwd
    /\ tun = current.tun
    /\ status.config = current
    /\ status.gen = routing.gen
    /\ \A g \in DOMAIN egress : g <= routing.gen

(* The ring of audit records is a gapless history: ids are consecutive, each *)
(* record starts at the generation the one before it ended at, only an       *)
(* applied reload moves it, and it ends at the running generation.           *)
AuditChain ==
  /\ Len(audits) <= AuditLimit
  /\ \A i \in 1..Len(audits) :
       LET b == audits[i].body IN
         b.after = b.before + (IF b.outcome = "applied" THEN 1 ELSE 0)
  /\ \A i \in 1..(Len(audits) - 1) :
       /\ audits[i + 1].id = audits[i].id + 1
       /\ audits[i + 1].body.before = audits[i].body.after
  /\ (lock = NoOne /\ audits # <<>>) =>
       LET last == audits[Len(audits)] IN
         last.id = nextId /\ last.body.after = routing.gen

(* No step changes a field that needs a restart, and a generation is         *)
(* followed by the next one only: a mixed candidate is refused as a whole.   *)
RestartFieldsFixed ==
  [][/\ current'.static = current.static
     /\ routing'.gen \in {routing.gen, routing.gen + 1}]_vars

Pinned == INSTANCE PinnedSessions
            WITH gen <- routing.gen, fwd <- routing.fwd, pin <- decision,
                 Window <- Retained - 1

(* Reload, seen from the sessions, is an atomic switch of configurations:    *)
(* install, mirror, commit, timeouts, audit and every rollback implement     *)
(* PinnedSessions.                                                           *)
ImplementsPinned == Pinned!Spec

(* A request made once the file holds configuration c is answered: unless    *)
(* the file changes again, a later audit record is about c or reports a      *)
(* failure, also when the request came while a reload of older content ran.  *)
RequestAnswered ==
  \A r \in Reloaders, c \in Configs, n \in 0..MaxRequests :
    (r \in pending /\ file = c /\ nextId = n) ~>
      \/ file # c
      \/ \E i \in 1..Len(audits) :
           /\ audits[i].id > n
           /\ audits[i].body.cand = c \/ audits[i].body.outcome = "failed"
===============================================================================
