---------------------------- MODULE InboundUsers ----------------------------
(***************************************************************************)
(* The users of the inbounds, kept in two places: rw-core holds them, and  *)
(* the manager holds a hash of them per inbound, against which the next    *)
(* start decides whether the core has to be restarted at all.  The four    *)
(* user handlers of internal/nodehandler edit both, one inbound at a time  *)
(* and in separate steps (an RPC, then m.mu), while starts, stops, health  *)
(* polls and exits of the core replace either.                             *)
(*                                                                         *)
(* A UUID is a pair <<user, version>>; a hash is the set it is the hash of *)
(* (module HashedSet is about the hash itself).  The Panel is truthful: it *)
(* sends the UUID a user has now and the one the user had before, and the  *)
(* hashes of the configuration it sends.                                   *)
(***************************************************************************)
EXTENDS Naturals, Sequences, FiniteSets

CONSTANTS
  Handlers,            \* concurrent requests to the user handlers
  Users, Tags,         \* users and inbound tags of the Panel
  Versions,            \* a user's UUIDs, in the order the Panel gives them out
  Addrs,               \* addresses clients connect from
  Whitelisted,         \* addresses the plugin's whitelist holds
  Configs,             \* configurations of the Panel: inbound tag -> users
  Bases,               \* values of hashes.emptyConfig
  None,                \* no value
  MaxCalls, MaxStarts, \* bounds on handler calls and on starts and stops
  MaxConnects,         \* bound on connections opened
  MaxFaults            \* bound on failed core calls, failed kills and core exits

ASSUME FirstVersion == Versions \subseteq Nat /\ 1 \in Versions
ASSUME FiniteTags == IsFiniteSet(Tags)
ASSUME KnownAddrs == Whitelisted \subseteq Addrs
ASSUME ConfigsOfUsers == Configs \subseteq UNION {[T -> SUBSET Users] : T \in SUBSET Tags}
ASSUME NoneIsFresh == None \notin Bases \cup Tags

VARIABLES
  online,        \* xrayOnline
  alive,         \* the core answers on its gRPC socket
  core,          \* inbound tag -> UUIDs, in the core
  inboundHashes, \* inbound tag -> UUIDs, in the manager
  inboundTags,   \* the tags the handlers go through
  emptyConfigHash,
  starting,      \* the start in progress: [pc, config, base]
  connected,     \* open connections, <<user, address>>
  pc, job,       \* of each handler
  panel,         \* the version of each user's UUID that the Panel sent last
  calm,          \* since the core was started, no handler overlapped a start, a
                 \* stop or another handler of the same user
  faultless,     \* since the core was started, no core call and no kill failed
  calls, starts, connects, faults

coreState == <<online, alive, core>>
hashState == <<inboundHashes, inboundTags, emptyConfigHash>>
manager   == <<coreState, hashState, starting>>
history   == <<panel, calm, faultless>>
bounds    == <<calls, starts, connects, faults>>
vars      == <<manager, connected, pc, job, history, bounds>>

Uuids       == Users \X Versions
Of(u, S)    == {x \in S : x[1] = u}
At(f, t)    == IF t \in DOMAIN f THEN f[t] ELSE {}
Put(f, t, S) == [x \in DOMAIN f \cup {t} |-> IF x = t THEN S ELSE f[x]]
Drop(f, t)  == [x \in DOMAIN f \ {t} |-> f[x]]
NoInbounds  == [t \in {} |-> {}]

Item(h)     == Head(job[h].queue)
Named(h)    == {job[h].queue[i].user : i \in DOMAIN job[h].queue}
Goto(h, l)  == pc' = [pc EXCEPT ![h] = l]
Keep(h, field, value) == job' = [job EXCEPT ![h][field] = value]

NoJob == [op |-> "none", queue |-> <<>>, todo |-> {}, tag |-> None, ips |-> {}]
NoStart == [pc |-> "idle", config |-> NoInbounds, base |-> None]

Init ==
  /\ online = FALSE /\ alive = FALSE /\ core = NoInbounds
  /\ inboundHashes = NoInbounds /\ inboundTags = {} /\ emptyConfigHash = None
  /\ starting = NoStart
  /\ connected = {}
  /\ pc = [h \in Handlers |-> "idle"]
  /\ job = [h \in Handlers |-> NoJob]
  /\ panel = [u \in Users |-> 1]
  /\ calm = TRUE /\ faultless = TRUE
  /\ calls = 0 /\ starts = 0 /\ connects = 0 /\ faults = 0

-----------------------------------------------------------------------------
(* The requests.  An item is one user of a request: the UUID to forget,    *)
(* the UUID to add and the inbounds to add it to.                          *)

ItemOf(u, v, T) == [user |-> u, old |-> <<u, panel[u]>>, new |-> <<u, v>>, tags |-> T]

Call(h, op, queue, tags, l) ==
  LET items == {queue[i] : i \in DOMAIN queue}
      users == {i.user : i \in items}
  IN  /\ pc[h] = "idle" /\ calls < MaxCalls /\ calls' = calls + 1
      /\ job' = [job EXCEPT ![h] = [NoJob EXCEPT !.op = op, !.queue = queue, !.todo = tags]]
      /\ Goto(h, l)
      /\ panel' = [u \in Users |->
           IF u \in users THEN (CHOOSE i \in items : i.user = u).new[2] ELSE panel[u]]
      /\ calm' = (calm /\ starting.pc = "idle"
                       /\ \A g \in Handlers \ {h} : Named(g) \cap users = {})
      /\ UNCHANGED <<manager, connected, faultless, starts, connects, faults>>

HandleAddUser(h) ==
  \E u \in Users, v \in Versions, T \in SUBSET Tags \ {{}} :
    v >= panel[u] /\ Call(h, "addUser", <<ItemOf(u, v, T)>>, T, "tag")

HandleRemoveUser(h) ==
  \E u \in Users : Call(h, "removeUser", <<ItemOf(u, panel[u], {})>>, {}, "check")

HandleAddUsers(h) ==
  \E u, w \in Users, S \in SUBSET Tags \ {{}}, T \in SUBSET Tags \ {{}} :
    \E affected \in {S \cup T, Tags} :
      u # w /\ Call(h, "addUsers", <<ItemOf(u, panel[u], S), ItemOf(w, panel[w], T)>>,
                    affected, "tag")

HandleRemoveUsers(h) ==
  \E u, w \in Users : u # w /\
    Call(h, "removeUsers", <<ItemOf(u, panel[u], {}), ItemOf(w, panel[w], {})>>, {}, "check")

\* HandleDropUsersConnections: the addresses are collected and dropped, no more.
HandleDropUsersConnections(h) ==
  \E u \in Users : Call(h, "dropUsers", <<ItemOf(u, panel[u], {})>>, {}, "collect")

-----------------------------------------------------------------------------
(* The steps of a handler.                                                 *)

\* AddInboundTag for every inbound of the request.  HandleAddUser asks for the
\* addresses of the user only when the request names a previous UUID.
AddInboundTag(h) ==
  /\ pc[h] = "tag"
  /\ \E t \in job[h].todo :
       /\ inboundTags' = inboundTags \cup {t}
       /\ Keep(h, "todo", job[h].todo \ {t})
  /\ Goto(h, IF job'[h].todo # {} THEN "tag"
             ELSE IF job[h].op = "addUser" /\ Item(h).old # Item(h).new
                  THEN "collect" ELSE "snapshot")
  /\ UNCHANGED <<coreState, inboundHashes, emptyConfigHash, starting, connected, history, bounds>>

\* The removals answer at once when there is no inbound: the rest of the request
\* is forgotten and nothing is left to drop.
RemoveCheck(h) ==
  /\ pc[h] = "check"
  /\ IF inboundTags = {}
       THEN /\ Keep(h, "queue", <<Item(h)>>)
            /\ Goto(h, "drop")
       ELSE /\ Keep(h, "todo", inboundTags)
            /\ Goto(h, "collect")
  /\ UNCHANGED <<manager, connected, history, bounds>>

\* A core call may fail: the flag is down or the core does not answer, which
\* matters to what the core holds only if it is alive; or the call itself fails,
\* before or after the core has acted on it.
Reached  == online /\ alive
NoFault  == UNCHANGED <<faults, faultless>>
Faulted  == Reached /\ faults < MaxFaults /\ faults' = faults + 1 /\ faultless' = FALSE
Refused  == ~Reached /\ faultless' = (faultless /\ ~alive) /\ UNCHANGED faults

\* collectUserIPs.  HandleRemoveUser has its inbounds from the check.
CollectUserIPs(h) ==
  /\ pc[h] = "collect"
  /\ \/ Reached /\ NoFault /\ Keep(h, "ips", {a \in Addrs : <<Item(h).user, a>> \in connected})
     \/ (Faulted \/ Refused) /\ Keep(h, "ips", {})
  /\ Goto(h, CASE job[h].op = "removeUser" -> "remove"
               [] job[h].op = "dropUsers" -> "drop"
               [] OTHER -> "snapshot")
  /\ UNCHANGED <<manager, connected, panel, calm, calls, starts, connects>>

\* Mutant: only the inbounds the user is added to are gone through.
InboundTagsOfItem(h) ==
  /\ pc[h] = "snapshot"
  /\ Keep(h, "todo", Item(h).tags \cap inboundTags)
  /\ Goto(h, IF Item(h).tags \cap inboundTags = {} THEN "drop" ELSE "remove")
  /\ UNCHANGED <<manager, connected, history, bounds>>

InboundTags(h) ==
  /\ pc[h] = "snapshot"
  /\ Keep(h, "todo", inboundTags)
  /\ Goto(h, IF inboundTags = {} THEN "drop" ELSE "remove")
  /\ UNCHANGED <<manager, connected, history, bounds>>

\* HandlerRemoveUser, whose result no caller looks at before it goes on.  A user
\* or an inbound the core does not have counts as removed.
HandlerRemoveUser(h) ==
  \E t \in job[h].todo :
    LET without == Put(core, t, At(core, t) \ Of(Item(h).user, At(core, t)))
        removed == IF t \in DOMAIN core THEN without ELSE core
    IN  /\ pc[h] = "remove"
        /\ \/ Reached /\ NoFault /\ core' = removed
           \/ Faulted /\ core' \in {core, removed}
           \/ Refused /\ UNCHANGED core
        /\ job' = [job EXCEPT ![h].tag = t, ![h].todo = @ \ {t}]
        /\ Goto(h, "forget")
        /\ UNCHANGED <<online, alive, hashState, starting, connected, panel, calm,
                       calls, starts, connects>>

\* Mutant: the inbound is dropped whether or not users are left.
RemoveUserFromInboundHashAll(h) ==
  /\ pc[h] = "forget"
  /\ inboundHashes' = Drop(inboundHashes, job[h].tag)
  /\ inboundTags' = inboundTags \ {job[h].tag}
  /\ Goto(h, IF job[h].todo = {} THEN "drop" ELSE "remove")
  /\ UNCHANGED <<coreState, emptyConfigHash, starting, connected, job, history, bounds>>

\* An inbound without users loses its hash and its place among the tags.
RemoveUserFromInboundHash(h) ==
  LET t == job[h].tag
      left == At(inboundHashes, t) \ {Item(h).old}
  IN  /\ pc[h] = "forget"
      /\ IF t \notin DOMAIN inboundHashes THEN UNCHANGED <<inboundHashes, inboundTags>>
         ELSE IF left = {}
         THEN inboundHashes' = Drop(inboundHashes, t) /\ inboundTags' = inboundTags \ {t}
         ELSE inboundHashes' = Put(inboundHashes, t, left) /\ UNCHANGED inboundTags
      /\ Goto(h, IF job[h].todo = {} THEN "drop" ELSE "remove")
      /\ UNCHANGED <<coreState, emptyConfigHash, starting, connected, job, history, bounds>>

\* The next user of the request, or the end of it.
NextItem(h) ==
  LET rest == Tail(job[h].queue)
      tags == IF rest = <<>> THEN {} ELSE Head(rest).tags
  IN  IF rest = <<>> THEN job' = [job EXCEPT ![h] = NoJob] /\ Goto(h, "idle")
      ELSE /\ job' = [job EXCEPT ![h].queue = rest, ![h].todo = tags, ![h].ips = {}]
           /\ Goto(h, IF job[h].op = "addUsers" THEN "tag" ELSE "collect")

\* DropIPs: the sockets of every collected address that is not whitelisted.  A
\* kill that fails is logged and nothing else.
DropIPs(h) ==
  LET killed == {c \in connected : c[2] \in job[h].ips \ Whitelisted}
  IN  /\ pc[h] = "drop"
      /\ \/ connected' = connected \ killed /\ NoFault
         \/ killed # {} /\ Faulted /\ UNCHANGED connected
      /\ IF Item(h).tags = {} THEN NextItem(h)
         ELSE Keep(h, "todo", Item(h).tags) /\ Goto(h, "add")
      /\ UNCHANGED <<manager, panel, calm, calls, starts, connects>>

\* HandleDropIPs: the addresses come from the request.
HandleDropIPs ==
  /\ calls < MaxCalls /\ calls' = calls + 1
  /\ \E A \in SUBSET Addrs :
       connected' = {c \in connected : c[2] \notin A \ Whitelisted}
  /\ UNCHANGED <<manager, pc, job, history, starts, connects, faults>>

\* The core refuses a user it has and an inbound it does not have.
Accepted(h, t) ==
  IF t \in DOMAIN core /\ Of(Item(h).user, core[t]) = {}
    THEN Put(core, t, core[t] \cup {Item(h).new}) ELSE core

\* Mutant: a user is recorded whatever the core answered.
AddSingleUserRecorded(h) ==
  \E t \in job[h].todo :
    /\ pc[h] = "add"
    /\ \/ Reached /\ NoFault /\ core' = Accepted(h, t)
       \/ Faulted /\ core' \in {core, Accepted(h, t)}
       \/ ~Reached /\ NoFault /\ UNCHANGED core
    /\ job' = [job EXCEPT ![h].tag = t, ![h].todo = @ \ {t}] /\ Goto(h, "record")
    /\ UNCHANGED <<online, alive, hashState, starting, connected, panel, calm,
                   calls, starts, connects>>

\* HandlerAdd...User: a user is recorded only when the core answers that it was
\* added; an answer that is lost after the core has acted counts as a failure.
AddSingleUser(h) ==
  \E t \in job[h].todo :
    /\ pc[h] = "add"
    /\ \/ /\ Reached /\ NoFault /\ Accepted(h, t) # core
          /\ core' = Accepted(h, t)
          /\ job' = [job EXCEPT ![h].tag = t, ![h].todo = @ \ {t}] /\ Goto(h, "record")
       \/ /\ \/ Reached /\ NoFault /\ Accepted(h, t) = core /\ UNCHANGED core
             \/ Faulted /\ core' \in {core, Accepted(h, t)}
             \/ ~Reached /\ NoFault /\ UNCHANGED core
          /\ IF job[h].todo = {t} THEN NextItem(h)
             ELSE Keep(h, "todo", job[h].todo \ {t}) /\ UNCHANGED pc
    /\ UNCHANGED <<online, alive, hashState, starting, connected, panel, calm,
                   calls, starts, connects>>

\* Mutant: a tag that was dropped with its last user does not come back.
AddUserToInboundHashUntagged(h) ==
  /\ pc[h] = "record"
  /\ inboundHashes' = Put(inboundHashes, job[h].tag, At(inboundHashes, job[h].tag) \cup {Item(h).new})
  /\ IF job[h].todo = {} THEN NextItem(h) ELSE Goto(h, "add") /\ UNCHANGED job
  /\ UNCHANGED <<coreState, inboundTags, emptyConfigHash, starting, connected, history, bounds>>

AddUserToInboundHash(h) ==
  LET t == job[h].tag
  IN  /\ pc[h] = "record"
      /\ inboundHashes' = Put(inboundHashes, t, At(inboundHashes, t) \cup {Item(h).new})
      /\ inboundTags' = inboundTags \cup {t}
      /\ IF job[h].todo = {} THEN NextItem(h) ELSE Goto(h, "add") /\ UNCHANGED job
      /\ UNCHANGED <<coreState, emptyConfigHash, starting, connected, history, bounds>>

HandlerStep(h) ==
  \/ HandleAddUser(h) \/ HandleRemoveUser(h) \/ HandleAddUsers(h) \/ HandleRemoveUsers(h)
  \/ HandleDropUsersConnections(h)
  \/ AddInboundTag(h) \/ RemoveCheck(h) \/ CollectUserIPs(h) \/ InboundTags(h)
  \/ HandlerRemoveUser(h) \/ RemoveUserFromInboundHash(h) \/ DropIPs(h)
  \/ AddSingleUser(h) \/ AddUserToInboundHash(h)

-----------------------------------------------------------------------------
(* The manager, one start or stop at a time (lifecycleMu); a stop holds    *)
(* m.mu from the kill to the clearing, which makes it one step.            *)

Quiet == \A h \in Handlers : pc[h] = "idle"
NoCore == online' = FALSE /\ alive' = FALSE /\ core' = NoInbounds /\ connected' = {}
Stay(l) == starting' = [starting EXCEPT !.pc = l]

StartCall ==
  /\ starting.pc = "idle" /\ starts < MaxStarts /\ starts' = starts + 1
  /\ \E config \in Configs, base \in Bases :
       starting' = [pc |-> IF online THEN "ping" ELSE "replace", base |-> base,
                    config |-> [t \in DOMAIN config |-> {<<u, panel[u]>> : u \in config[t]}]]
  /\ calm' = (calm /\ Quiet)
  /\ UNCHANGED <<coreState, hashState, connected, pc, job, panel, faultless, calls, connects, faults>>

\* The ping of a living core may time out as well; forceRestart goes without.
StartPing ==
  /\ starting.pc = "ping"
  /\ \/ alive /\ Stay("compare") /\ UNCHANGED online
     \/ Stay("replace") /\ online' \in {online, FALSE}
  /\ UNCHANGED <<alive, core, hashState, connected, pc, job, history, bounds>>

\* Mutant: the number of inbounds is not compared.
IsNeedRestartCoreUncounted(config, base) ==
  \/ emptyConfigHash = None
  \/ base # emptyConfigHash
  \/ \E t \in DOMAIN inboundHashes : At(config, t) # inboundHashes[t]

IsNeedRestartCore(config, base) ==
  \/ emptyConfigHash = None
  \/ base # emptyConfigHash
  \/ Cardinality(DOMAIN config) # Cardinality(DOMAIN inboundHashes)
  \/ \E t \in DOMAIN inboundHashes : t \notin DOMAIN config \/ config[t] # inboundHashes[t]

StartCompare ==
  /\ starting.pc = "compare"
  /\ Stay(IF IsNeedRestartCore(starting.config, starting.base) THEN "replace" ELSE "skip")
  /\ UNCHANGED <<coreState, hashState, connected, pc, job, history, bounds>>

ExtractUsersFromConfig ==
  /\ inboundHashes' = starting.config
  /\ inboundTags' = DOMAIN starting.config
  /\ emptyConfigHash' = starting.base

StartSkip ==
  /\ starting.pc = "skip"
  /\ ExtractUsersFromConfig
  /\ starting' = NoStart
  /\ UNCHANGED <<coreState, connected, pc, job, history, bounds>>

\* From here to the spawn no core runs: what the handlers did before is over,
\* unless the Panel has given out a new UUID since it sent the configuration.
UpToDate == \A t \in DOMAIN starting.config : \A x \in starting.config[t] : x[2] = panel[x[1]]

StartReplace ==
  /\ starting.pc = "replace"
  /\ \/ ExtractUsersFromConfig /\ NoCore /\ Stay("spawn")
        /\ calm' = (Quiet /\ UpToDate) /\ faultless' = TRUE
     \/ starting' = NoStart /\ UNCHANGED <<coreState, hashState, connected, calm, faultless>>
  /\ UNCHANGED <<pc, job, panel, bounds>>

StartSpawn ==
  /\ starting.pc = "spawn"
  /\ \/ Stay("await") /\ alive' = TRUE /\ core' = starting.config
     \/ starting' = NoStart /\ UNCHANGED <<alive, core>>
  /\ UNCHANGED <<online, hashState, connected, pc, job, history, bounds>>

StartAwait ==
  /\ starting.pc = "await"
  /\ \/ alive /\ online' = TRUE /\ UNCHANGED <<alive, core, connected>>
     \/ NoCore
  /\ starting' = NoStart
  /\ UNCHANGED <<hashState, pc, job, history, bounds>>

Stop ==
  /\ starting.pc = "idle" /\ starts < MaxStarts /\ starts' = starts + 1
  /\ NoCore
  /\ inboundHashes' = NoInbounds /\ inboundTags' = {} /\ emptyConfigHash' = None
  /\ UNCHANGED <<starting, pc, job, history, calls, connects, faults>>

\* A poll overwrites the flag with what its ping found or failed to find.
Health ==
  /\ \/ online # alive /\ online' = alive /\ UNCHANGED faults
     \/ online /\ alive /\ online' = FALSE /\ faults < MaxFaults /\ faults' = faults + 1
  /\ UNCHANGED <<alive, core, hashState, starting, connected, pc, job, history,
                 calls, starts, connects>>

\* The core exits and takes its connections along; its monitor, or the next
\* poll, lowers the flag later.  The hash state stays.
CoreExit ==
  /\ alive /\ faults < MaxFaults /\ faults' = faults + 1
  /\ alive' = FALSE /\ core' = NoInbounds /\ connected' = {}
  /\ UNCHANGED <<online, hashState, starting, pc, job, history, calls, starts, connects>>

\* A client that some inbound accepts connects.
Connect ==
  /\ connects < MaxConnects /\ connects' = connects + 1
  /\ \E u \in Users, a \in Addrs :
       /\ \E t \in DOMAIN core : Of(u, core[t]) # {}
       /\ connected' = connected \cup {<<u, a>>}
  /\ UNCHANGED <<manager, pc, job, history, calls, starts, faults>>

Next ==
  \/ \E h \in Handlers : HandlerStep(h)
  \/ HandleDropIPs
  \/ StartCall \/ StartPing \/ StartCompare \/ StartSkip \/ StartReplace \/ StartSpawn
  \/ StartAwait \/ Stop \/ Health \/ CoreExit \/ Connect

Spec == Init /\ [][Next]_vars

-----------------------------------------------------------------------------
(* Properties.                                                             *)

Inbounds == UNION {[T -> SUBSET Uuids] : T \in SUBSET Tags}
Items == [user : Users, old : Uuids, new : Uuids, tags : SUBSET Tags]

\* Types; what the manager keeps a hash of is always among the tags that the
\* removals go through, and no inbound of the core holds two UUIDs of a user.
TypeOK ==
  /\ online \in BOOLEAN /\ alive \in BOOLEAN /\ core \in Inbounds
  /\ inboundHashes \in Inbounds /\ inboundTags \subseteq Tags
  /\ DOMAIN inboundHashes \subseteq inboundTags
  /\ emptyConfigHash \in Bases \cup {None}
  /\ starting.pc \in {"idle", "ping", "compare", "skip", "replace", "spawn", "await"}
  /\ starting.config \in Inbounds
  /\ connected \subseteq Users \X Addrs
  /\ \A t \in DOMAIN core, u \in Users : Cardinality(Of(u, core[t])) <= 1
  /\ \A h \in Handlers :
       /\ pc[h] \in {"idle", "tag", "check", "collect", "snapshot", "remove", "forget",
                     "drop", "add", "record"}
       /\ job[h].todo \subseteq Tags /\ job[h].ips \subseteq Addrs
       /\ \A i \in DOMAIN job[h].queue : job[h].queue[i] \in Items

\* The users no handler is working on.
Settled == {u \in Users : \A h \in Handlers : u \notin Named(h)}

\* The hash state never counts a user the core does not serve, whatever calls
\* to the core fail or get lost, as long as handlers of different users are all
\* that ran since the core was started: a user is forgotten after the removal
\* and recorded after the answer (HandleAddUser and the others).
HashedIsServed ==
  calm /\ alive => \A t \in Tags, u \in Settled : Of(u, At(inboundHashes, t)) \subseteq At(core, t)

\* If no call failed either, the core serves nobody the hash state does not
\* count, however the handlers' steps interleave and whichever inbounds lost
\* their last user on the way.
ServedIsHashed ==
  calm /\ faultless /\ alive =>
    \A t \in Tags, u \in Settled : Of(u, At(core, t)) \subseteq At(inboundHashes, t)

\* Both: the hash state and the core agree on every user whose handlers are through.
HashesAgree == HashedIsServed /\ ServedIsHashed

\* A start that is answered without a restart finds in the core every user the
\* Panel asked for, and nobody else unless a call to the core failed.
SkippedStartIsServed ==
  starting.pc = "skip" /\ calm /\ alive =>
    \A t \in Tags : /\ At(starting.config, t) \subseteq At(core, t)
                    /\ faultless => At(core, t) \subseteq At(starting.config, t)

Replacing(h) ==
  /\ pc[h] = "add" /\ job[h].op = "addUser" /\ Item(h).old # Item(h).new
  /\ job[h].todo = Item(h).tags
  /\ calm /\ faultless /\ alive

\* When a user with a previous UUID is about to be added, no connection of the
\* addresses it was collected with is open: it was removed before they were
\* dropped, and could not come back through the old UUID.
CollectedAreGone ==
  \A h \in Handlers : Replacing(h) =>
    \A a \in job[h].ips \ Whitelisted : <<Item(h).user, a>> \notin connected
=============================================================================
