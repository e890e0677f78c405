----------------------------- MODULE UsersProofs -----------------------------
(***************************************************************************)
(* The users of the inbounds, proved for every set of handlers, users,     *)
(* inbounds, configurations and addresses, and for any number of calls,    *)
(* starts and faults: what the manager counts of a user the core serves,   *)
(* and without faults the core serves no more.  From it: a start that is   *)
(* skipped finds its users served, and a user that comes back finds its    *)
(* old connections gone.                                                   *)
(***************************************************************************)
EXTENDS InboundUsers, FiniteSetTheorems, SequenceTheorems, TLAPS

\* What the manager counts and what the core has of a user in an inbound.
Counted(u, t) == Of(u, At(inboundHashes, t))
Served(u, t) == Of(u, At(core, t))
Now(u) == <<u, panel[u]>>

\* No user of an inbound of the core goes without being counted, and in a core that lives
\* nobody is counted that it has not.
Agree(H, C, lives, spotless) == (lives => H \subseteq C) /\ (lives /\ spotless => C \subseteq H)
Sound(u, t) == Agree(Counted(u, t), Served(u, t), alive, faultless)

-----------------------------------------------------------------------------
(* The inductive invariant.                                                *)

JobOps == {"addUser", "removeUser", "addUsers", "removeUsers", "dropUsers"}
Jobs == [op : JobOps \cup {"none"}, queue : Seq(Items), todo : SUBSET Tags,
         tag : Tags \cup {None}, ips : SUBSET Addrs]
Phases == {"idle", "tag", "check", "collect", "snapshot", "remove", "forget",
           "drop", "add", "record"}
StartPhases == {"idle", "ping", "compare", "skip", "replace", "spawn", "await"}

JobInv == job \in [Handlers -> Jobs] /\ pc \in [Handlers -> Phases]

StateInv ==
  /\ panel \in [Users -> Versions]
  /\ online \in BOOLEAN /\ alive \in BOOLEAN /\ calm \in BOOLEAN /\ faultless \in BOOLEAN
  /\ core \in Inbounds /\ inboundHashes \in Inbounds
  /\ inboundTags \subseteq Tags /\ DOMAIN inboundHashes \subseteq inboundTags
  /\ emptyConfigHash \in Bases \cup {None}
  /\ starting \in [pc : StartPhases, config : Inbounds, base : Bases \cup {None}]
  /\ connected \subseteq Users \X Addrs

\* A user has one UUID in an inbound of the core, and of a configuration.
OneEach(f) == \A t \in DOMAIN f : \A x, y \in f[t] : x[1] = y[1] => x = y
OneEachInv == OneEach(core) /\ OneEach(starting.config)

\* The users of a request are different; only HandleAddUser changes a UUID.
QueueOK(op, q) ==
  /\ q # <<>>
  /\ \A i \in DOMAIN q : q[i].old[1] = q[i].user /\ q[i].new[1] = q[i].user
  /\ \A i, j \in DOMAIN q : q[i].user = q[j].user => i = j
  /\ op # "addUser" => \A i \in DOMAIN q : q[i].old = q[i].new
  /\ op \in {"addUser", "removeUser"} => Len(q) = 1
  /\ op \notin {"addUser", "addUsers"} => \A i \in DOMAIN q : q[i].tags = {}

\* Steps go with operations.
PhaseOK(p, j) ==
  /\ p = "idle" => j = NoJob
  /\ p # "idle" => j.op \in JobOps /\ QueueOK(j.op, j.queue)
  /\ p \in {"tag", "snapshot", "remove", "forget", "add", "record"} => j.op # "dropUsers"
  /\ p = "tag" => j.op \in {"addUser", "addUsers"}
  /\ p = "check" => j.op \in {"removeUser", "removeUsers"}
  /\ p \in {"forget", "record"} => j.tag \in Tags \ j.todo
  /\ p = "record" => j.tag \in Head(j.queue).tags
  /\ p \in {"add", "record"} => j.todo \subseteq Head(j.queue).tags
PhaseInv == \A h \in Handlers : PhaseOK(pc[h], job[h])

\* As long as it is calm: no two handlers have a user, the UUIDs to add are what the Panel
\* sent last, no handler runs beside a start, and a start that skips or spawns has what
\* the manager counts.
CalmInv ==
  calm =>
    /\ \A h, g \in Handlers : h # g => Named(h) \cap Named(g) = {}
    /\ \A h \in Handlers : \A i \in DOMAIN job[h].queue :
         job[h].queue[i].new = Now(job[h].queue[i].user)
    /\ starting.pc # "idle" => Quiet /\ UpToDate
    /\ starting.pc \in {"skip", "spawn"} => inboundHashes = starting.config

\* A user no handler is at is counted, if at all, with the UUID of now, and as it is served.
Resting(u) == \A h \in Handlers : pc[h] = "idle" \/ Item(h).user # u
RestInv ==
  calm => \A u \in Users, t \in Tags :
    Resting(u) => Counted(u, t) \subseteq {Now(u)} /\ Sound(u, t)

\* What is counted (H) and served (C) of the user a handler is at, in an inbound: the UUID to
\* forget up to the removal, which goes through every inbound that counts the user, and
\* the UUID to add after it.
Work(p, j, t, H, C, lives, spotless) ==
  LET item == Head(j.queue)
      there == p \in {"forget", "record"} /\ t = j.tag
  IN
    /\ p \in {"tag", "check", "collect", "snapshot", "remove", "forget"} => H \subseteq {item.old}
    /\ p \in {"drop", "add", "record"} => H \subseteq {item.new}
    /\ there \/ Agree(H, C, lives, spotless)
    /\ p \in {"remove", "forget"} /\ ~there => t \in j.todo \/ H = {}
    /\ p = "collect" /\ j.op = "removeUser" => t \in j.todo \/ H = {}
    /\ p = "drop" /\ j.op # "dropUsers" => H = {}
    /\ p = "add" /\ j.todo = item.tags => H = {}
    /\ p = "forget" /\ there /\ lives /\ spotless => C = {}
    /\ p = "record" /\ there => Agree(H \cup {item.new}, C, lives, spotless)
WorkOK(h, t) ==
  Work(pc[h], job[h], t, Counted(Item(h).user, t), Served(Item(h).user, t), alive, faultless)
WorkInv == calm => \A h \in Handlers : pc[h] # "idle" => \A t \in Tags : WorkOK(h, t)

-----------------------------------------------------------------------------
(* Lemmas about inbounds.                                                  *)

\* The users of inbounds are sets of UUIDs under tags.
LEMMA InboundsFact ==
  ASSUME NEW f \in Inbounds
  PROVE  /\ DOMAIN f \subseteq Tags /\ f = [t \in DOMAIN f |-> f[t]]
         /\ \A t \in DOMAIN f : f[t] \subseteq Uuids
         /\ \A t : At(f, t) \subseteq Uuids
  BY DEF Inbounds, At

\* Sets of UUIDs under tags are the users of inbounds.
LEMMA InboundsIntro ==
  ASSUME NEW T \in SUBSET Tags, NEW f \in [T -> SUBSET Uuids]
  PROVE  f \in Inbounds
  BY DEF Inbounds

\* Putting a set under a tag changes that tag only.
LEMMA PutAt ==
  ASSUME NEW f, NEW t, NEW S
  PROVE  At(Put(f, t, S), t) = S /\ \A s : s # t => At(Put(f, t, S), s) = At(f, s)
  BY DEF Put, At

\* Dropping a tag changes that tag only.
LEMMA DropAt ==
  ASSUME NEW f, NEW t
  PROVE  At(Drop(f, t), t) = {} /\ \A s : s # t => At(Drop(f, t), s) = At(f, s)
  BY DEF Drop, At

\* Putting a set under a tag gives users of inbounds again.
LEMMA PutFact ==
  ASSUME NEW f \in Inbounds, NEW t \in Tags, NEW S \in SUBSET Uuids
  PROVE  Put(f, t, S) \in Inbounds /\ DOMAIN Put(f, t, S) = DOMAIN f \cup {t}
<1>1. DOMAIN f \cup {t} \in SUBSET Tags
  BY InboundsFact
<1>2. Put(f, t, S) \in [DOMAIN f \cup {t} -> SUBSET Uuids]
  BY InboundsFact DEF Put
<1> QED
  BY <1>1, <1>2, InboundsIntro

\* Dropping a tag gives users of inbounds again.
LEMMA DropFact ==
  ASSUME NEW f \in Inbounds, NEW t
  PROVE  Drop(f, t) \in Inbounds /\ DOMAIN Drop(f, t) = DOMAIN f \ {t}
<1>1. DOMAIN f \ {t} \in SUBSET Tags
  BY InboundsFact
<1>2. Drop(f, t) \in [DOMAIN f \ {t} -> SUBSET Uuids]
  BY InboundsFact DEF Drop
<1> QED
  BY <1>1, <1>2, InboundsIntro

\* No inbounds have no users.
LEMMA NoInboundsFact ==
  /\ NoInbounds \in Inbounds /\ DOMAIN NoInbounds = {} /\ OneEach(NoInbounds)
  /\ \A t : At(NoInbounds, t) = {}
<1>1. NoInbounds \in [{} -> SUBSET Uuids]
  BY DEF NoInbounds
<1>2. NoInbounds \in Inbounds
  BY <1>1, InboundsIntro
<1> QED
  BY <1>2 DEF NoInbounds, At, OneEach

\* UUIDs are pairs.
LEMMA UuidFact ==
  ASSUME NEW x \in Uuids
  PROVE  x = <<x[1], x[2]>> /\ x[1] \in Users /\ x[2] \in Versions
  BY DEF Uuids

-----------------------------------------------------------------------------
(* Lemmas about the steps of a handler.                                    *)

\* The user a handler is at.
LEMMA ItemFact ==
  ASSUME JobInv, PhaseInv, NEW h \in Handlers, pc[h] # "idle"
  PROVE  /\ Item(h) \in Items /\ Item(h).user \in Users /\ Item(h).tags \subseteq Tags
         /\ Item(h).old \in Uuids /\ Item(h).new \in Uuids
         /\ Item(h).old[1] = Item(h).user /\ Item(h).new[1] = Item(h).user
         /\ 1 \in DOMAIN job[h].queue /\ Item(h) = job[h].queue[1]
         /\ Item(h).user \in Named(h)
         /\ job[h].op # "addUser" => Item(h).old = Item(h).new
<1>1. job[h].queue \in Seq(Items) /\ QueueOK(job[h].op, job[h].queue)
  BY DEF JobInv, Jobs, PhaseInv, PhaseOK
<1>2. 1 \in DOMAIN job[h].queue /\ Item(h) = job[h].queue[1] /\ Item(h) \in Items
  BY <1>1 DEF QueueOK, Item
<1>3. Item(h).old[1] = Item(h).user /\ Item(h).new[1] = Item(h).user
  BY <1>1, <1>2 DEF QueueOK
<1>4. job[h].op # "addUser" => Item(h).old = Item(h).new
  BY <1>1, <1>2 DEF QueueOK
<1>5. Item(h).user \in Named(h)
  BY <1>2 DEF Named
<1> QED
  BY <1>2, <1>3, <1>4, <1>5 DEF Items

\* A handler that goes on and one whose job changes.
LEMMA GotoFact ==
  ASSUME JobInv, NEW h \in Handlers, NEW l \in Phases, Goto(h, l)
  PROVE  /\ pc' \in [Handlers -> Phases] /\ pc'[h] = l
         /\ \A g \in Handlers : g # h => pc'[g] = pc[g]
  BY DEF JobInv, Goto

JobStep(h, j) ==
  /\ job' \in [Handlers -> Jobs] /\ job'[h] = j
  /\ \A g \in Handlers : g # h => job'[g] = job[g]

\* Assigning a job to a handler changes the job of no other.
LEMMA JobStepFact ==
  ASSUME JobInv, NEW h \in Handlers, NEW j \in Jobs, job' = [job EXCEPT ![h] = j]
  PROVE  JobStep(h, j)
  BY DEF JobInv, JobStep

\* Keeping all of a job but the tags left to do.
LEMMA KeepTodo ==
  ASSUME JobInv, NEW h \in Handlers, NEW T \in SUBSET Tags, Keep(h, "todo", T)
  PROVE  JobStep(h, [job[h] EXCEPT !.todo = T])
<1>1. [job[h] EXCEPT !.todo = T] \in Jobs
  BY DEF JobInv, Jobs
<1>2. job' = [job EXCEPT ![h] = [job[h] EXCEPT !.todo = T]]
  BY DEF Keep, JobInv, Jobs
<1> QED
  BY <1>1, <1>2, JobStepFact

\* Keeping all of a job but the addresses collected.
LEMMA KeepIps ==
  ASSUME JobInv, NEW h \in Handlers, NEW A \in SUBSET Addrs, Keep(h, "ips", A)
  PROVE  JobStep(h, [job[h] EXCEPT !.ips = A])
<1>1. [job[h] EXCEPT !.ips = A] \in Jobs
  BY DEF JobInv, Jobs
<1>2. job' = [job EXCEPT ![h] = [job[h] EXCEPT !.ips = A]]
  BY DEF Keep, JobInv, Jobs
<1> QED
  BY <1>1, <1>2, JobStepFact

\* Keeping all of a job but the users left.
LEMMA KeepQueue ==
  ASSUME JobInv, NEW h \in Handlers, NEW q \in Seq(Items), Keep(h, "queue", q)
  PROVE  JobStep(h, [job[h] EXCEPT !.queue = q])
<1>1. [job[h] EXCEPT !.queue = q] \in Jobs
  BY DEF JobInv, Jobs
<1>2. job' = [job EXCEPT ![h] = [job[h] EXCEPT !.queue = q]]
  BY DEF Keep, JobInv, Jobs
<1> QED
  BY <1>1, <1>2, JobStepFact

\* The inbound that a core call is about.
LEMMA TakeTag ==
  ASSUME JobInv, NEW h \in Handlers, NEW t \in Tags,
         job' = [job EXCEPT ![h].tag = t, ![h].todo = @ \ {t}]
  PROVE  JobStep(h, [job[h] EXCEPT !.tag = t, !.todo = job[h].todo \ {t}])
<1>1. [job[h] EXCEPT !.tag = t, !.todo = job[h].todo \ {t}] \in Jobs
  BY DEF JobInv, Jobs
<1>2. job' = [job EXCEPT ![h] = [job[h] EXCEPT !.tag = t, !.todo = job[h].todo \ {t}]]
  BY DEF JobInv, Jobs
<1> QED
  BY <1>1, <1>2, JobStepFact

\* A request.
LEMMA NewJob ==
  ASSUME JobInv, NEW h \in Handlers, NEW op \in JobOps, NEW q \in Seq(Items), NEW T \in SUBSET Tags,
         job' = [job EXCEPT ![h] = [NoJob EXCEPT !.op = op, !.queue = q, !.todo = T]]
  PROVE  JobStep(h, job'[h]) /\ job'[h].op = op /\ job'[h].queue = q /\ job'[h].todo = T
<1> DEFINE j == [NoJob EXCEPT !.op = op, !.queue = q, !.todo = T]
<1>1. NoJob \in Jobs
  BY DEF NoJob, Jobs
<1>2. j \in Jobs /\ j.op = op /\ j.queue = q /\ j.todo = T
  BY <1>1 DEF Jobs
<1>3. JobStep(h, j)
  BY <1>2, JobStepFact
<1> QED
  BY <1>2, <1>3 DEF JobStep

\* What is left of a queue is as good as the queue.
LEMMA QueueRest ==
  ASSUME NEW op, NEW q, QueueOK(op, q), NEW r, r # <<>>, op \notin {"addUser", "removeUser"},
         \A i \in DOMAIN r : i + 1 \in DOMAIN q /\ r[i] = q[i + 1] /\ i \in Nat
  PROVE  QueueOK(op, r)
<1>1. \A i, j \in DOMAIN r : r[i].user = r[j].user => i = j
  <2> TAKE i, j \in DOMAIN r
  <2>1. q[i + 1].user = q[j + 1].user => i + 1 = j + 1
    BY DEF QueueOK
  <2> QED
    BY <2>1
<1> QED
  BY <1>1 DEF QueueOK

\* The end of a request, or its next user.
LEMMA NextItemFact ==
  ASSUME JobInv, PhaseInv, NEW h \in Handlers, pc[h] # "idle", NextItem(h)
  PROVE  \/ /\ Tail(job[h].queue) = <<>> /\ JobStep(h, NoJob) /\ Goto(h, "idle")
         \/ /\ Tail(job[h].queue) # <<>> /\ job[h].op \notin {"addUser", "removeUser"}
            /\ JobStep(h, [job[h] EXCEPT !.queue = Tail(job[h].queue), !.ips = {},
                                         !.todo = Head(Tail(job[h].queue)).tags])
            /\ Goto(h, IF job[h].op = "addUsers" THEN "tag" ELSE "collect")
            /\ QueueOK(job[h].op, Tail(job[h].queue))
<1> DEFINE q == job[h].queue
           rest == Tail(q)
           j == [job[h] EXCEPT !.queue = rest, !.ips = {}, !.todo = Head(rest).tags]
<1>1. q \in Seq(Items) /\ QueueOK(job[h].op, q) /\ job[h] \in Jobs
  BY DEF JobInv, Jobs, PhaseInv, PhaseOK
<1>2. q # <<>> /\ rest \in Seq(Items)
  BY <1>1 DEF QueueOK
<1>3. CASE rest = <<>>
  <2>1. NoJob \in Jobs
    BY DEF NoJob, Jobs
  <2>2. job' = [job EXCEPT ![h] = NoJob] /\ Goto(h, "idle")
    BY <1>3 DEF NextItem
  <2> QED
    BY <1>3, <2>1, <2>2, JobStepFact
<1>4. CASE rest # <<>>
  <2>1. Len(rest) = Len(q) - 1 /\ Len(q) \in Nat /\ Len(rest) \in Nat \ {0} /\ Head(rest) \in Items
    <3>1. Len(rest) = Len(q) - 1 /\ Len(q) \in Nat /\ Len(rest) \in Nat
      BY <1>1, <1>2, HeadTailProperties, LenProperties
    <3>2. Len(rest) # 0
      BY <1>2, <1>4, EmptySeq
    <3>3. Head(rest) \in Items
      BY <1>2, <1>4, HeadTailProperties
    <3> QED
      BY <3>1, <3>2, <3>3
  <2>2. job[h].op \notin {"addUser", "removeUser"}
    BY <1>1, <2>1 DEF QueueOK
  <2>3. j \in Jobs
    BY <1>1, <1>2, <2>1 DEF Jobs, Items
  <2>4. job' = [job EXCEPT ![h] = j] /\ Goto(h, IF job[h].op = "addUsers" THEN "tag" ELSE "collect")
    BY <1>1, <1>4 DEF NextItem, JobInv, Jobs
  <2>5. \A i \in DOMAIN rest : i + 1 \in DOMAIN q /\ rest[i] = q[i + 1] /\ i \in Nat
    BY <1>1, <1>2, HeadTailProperties, LenProperties
  <2>6. QueueOK(job[h].op, rest)
    BY <1>1, <1>4, <2>2, <2>5, QueueRest
  <2>7. JobStep(h, j)
    BY <2>3, <2>4, JobStepFact
  <2> QED
    BY <1>4, <2>2, <2>4, <2>6, <2>7
<1> QED
  BY <1>3, <1>4

-----------------------------------------------------------------------------
(* The requests, all of one shape.                                         *)

Request(op, q, T, l) ==
  /\ op \in JobOps /\ q \in Seq(Items) /\ T \in SUBSET Tags
  /\ QueueOK(op, q)
  /\ \A i \in DOMAIN q : q[i].old = Now(q[i].user)
  /\ l \in {"tag", "check", "collect"}
  /\ l = "tag" => op \in {"addUser", "addUsers"}
  /\ l = "check" => op \in {"removeUser", "removeUsers"}
  /\ l = "collect" => op = "dropUsers"

\* What a request asks for a user is well typed and about that user.
LEMMA ItemOfFact ==
  ASSUME StateInv, NEW u \in Users, NEW v \in Versions, NEW T \in SUBSET Tags
  PROVE  /\ ItemOf(u, v, T) \in Items /\ panel[u] \in Versions
         /\ ItemOf(u, v, T).user = u /\ ItemOf(u, v, T).tags = T
         /\ ItemOf(u, v, T).old = Now(u) /\ ItemOf(u, v, T).new = <<u, v>>
         /\ ItemOf(u, v, T).old[1] = u /\ ItemOf(u, v, T).new[1] = u
  BY DEF StateInv, ItemOf, Items, Uuids, Now

\* A request of one user and one of two.
LEMMA OneItem ==
  ASSUME StateInv, NEW op \in JobOps, NEW u \in Users, NEW v \in Versions, NEW T \in SUBSET Tags,
         op # "addUser" => v = panel[u], op \notin {"addUser", "addUsers"} => T = {}
  PROVE  /\ <<ItemOf(u, v, T)>> \in Seq(Items) /\ QueueOK(op, <<ItemOf(u, v, T)>>)
         /\ \A i \in DOMAIN <<ItemOf(u, v, T)>> :
              <<ItemOf(u, v, T)>>[i].old = Now(<<ItemOf(u, v, T)>>[i].user)
<1> DEFINE x == ItemOf(u, v, T)
           q == <<x>>
<1>1. /\ x \in Items /\ x.user = u /\ x.tags = T /\ x.old = Now(u) /\ x.new = <<u, v>>
      /\ x.old[1] = u /\ x.new[1] = u
  BY ItemOfFact
<1> HIDE DEF x
<1>2. /\ q \in Seq(Items) /\ q # <<>> /\ Len(q) = 1 /\ DOMAIN q = {1} /\ q[1] = x
  BY <1>1
<1>3. op # "addUser" => x.old = x.new
  BY <1>1 DEF Now
<1> HIDE DEF q
<1>4. QueueOK(op, q)
  BY <1>1, <1>2, <1>3 DEF QueueOK
<1>5. \A i \in DOMAIN q : q[i].old = Now(q[i].user)
  BY <1>1, <1>2
<1> QED
  BY <1>2, <1>4, <1>5 DEF q, x

\* A batch of two different users is a queue as the invariant wants it.
LEMMA TwoItems ==
  ASSUME StateInv, NEW op \in {"addUsers", "removeUsers"}, NEW u \in Users, NEW w \in Users, u # w,
         NEW S \in SUBSET Tags, NEW T \in SUBSET Tags, op = "removeUsers" => S = {} /\ T = {}
  PROVE  LET q == <<ItemOf(u, panel[u], S), ItemOf(w, panel[w], T)>>
         IN  /\ q \in Seq(Items) /\ QueueOK(op, q)
             /\ \A i \in DOMAIN q : q[i].old = Now(q[i].user)
<1> DEFINE x == ItemOf(u, panel[u], S)
           y == ItemOf(w, panel[w], T)
           q == <<x, y>>
<1>0. panel[u] \in Versions /\ panel[w] \in Versions
  BY DEF StateInv
<1>1. /\ x \in Items /\ x.user = u /\ x.tags = S /\ x.old = Now(u) /\ x.new = Now(u)
      /\ x.old[1] = u /\ x.new[1] = u
  BY <1>0, ItemOfFact DEF Now
<1>2. /\ y \in Items /\ y.user = w /\ y.tags = T /\ y.old = Now(w) /\ y.new = Now(w)
      /\ y.old[1] = w /\ y.new[1] = w
  BY <1>0, ItemOfFact DEF Now
<1> HIDE DEF x, y
<1>3. q \in Seq(Items) /\ q # <<>> /\ DOMAIN q = {1, 2} /\ q[1] = x /\ q[2] = y
  BY <1>1, <1>2
<1> HIDE DEF q
<1>4. QueueOK(op, q)
  BY <1>1, <1>2, <1>3 DEF QueueOK
<1>5. \A i \in DOMAIN q : q[i].old = Now(q[i].user)
  BY <1>1, <1>2, <1>3
<1> QED
  BY <1>3, <1>4, <1>5 DEF q, x, y

\* Every handler starts with such a request.
Calls(h) == HandleAddUser(h) \/ HandleRemoveUser(h) \/ HandleAddUsers(h)
            \/ HandleRemoveUsers(h) \/ HandleDropUsersConnections(h)

\* Every request is a call with an operation, a queue, tags and a first step.
LEMMA CallShape ==
  ASSUME StateInv, NEW h \in Handlers, Calls(h)
  PROVE  \E op, q, T, l : Request(op, q, T, l) /\ Call(h, op, q, T, l)
<1>1. CASE HandleAddUser(h)
  <2>1. PICK u \in Users, v \in Versions, T \in SUBSET Tags \ {{}} :
          Call(h, "addUser", <<ItemOf(u, v, T)>>, T, "tag")
    BY <1>1 DEF HandleAddUser
  <2>2. Request("addUser", <<ItemOf(u, v, T)>>, T, "tag")
    BY OneItem DEF Request, JobOps
  <2> QED
    BY <2>1, <2>2
<1>2. CASE HandleRemoveUser(h)
  <2>1. PICK u \in Users : Call(h, "removeUser", <<ItemOf(u, panel[u], {})>>, {}, "check")
    BY <1>2 DEF HandleRemoveUser
  <2>2. panel[u] \in Versions
    BY DEF StateInv
  <2>3. Request("removeUser", <<ItemOf(u, panel[u], {})>>, {}, "check")
    BY <2>2, OneItem DEF Request, JobOps
  <2> QED
    BY <2>1, <2>3
<1>3. CASE HandleAddUsers(h)
  <2>1. PICK u \in Users, w \in Users, S \in SUBSET Tags, T \in SUBSET Tags, affected \in SUBSET Tags :
          u # w /\ Call(h, "addUsers", <<ItemOf(u, panel[u], S), ItemOf(w, panel[w], T)>>, affected, "tag")
    BY <1>3 DEF HandleAddUsers
  <2>2. Request("addUsers", <<ItemOf(u, panel[u], S), ItemOf(w, panel[w], T)>>, affected, "tag")
    BY <2>1, TwoItems DEF Request, JobOps
  <2> QED
    BY <2>1, <2>2
<1>4. CASE HandleRemoveUsers(h)
  <2>1. PICK u \in Users, w \in Users :
          u # w /\ Call(h, "removeUsers", <<ItemOf(u, panel[u], {}), ItemOf(w, panel[w], {})>>, {}, "check")
    BY <1>4 DEF HandleRemoveUsers
  <2>2. Request("removeUsers", <<ItemOf(u, panel[u], {}), ItemOf(w, panel[w], {})>>, {}, "check")
    BY <2>1, TwoItems DEF Request, JobOps
  <2> QED
    BY <2>1, <2>2
<1>5. CASE HandleDropUsersConnections(h)
  <2>1. PICK u \in Users : Call(h, "dropUsers", <<ItemOf(u, panel[u], {})>>, {}, "collect")
    BY <1>5 DEF HandleDropUsersConnections
  <2>2. panel[u] \in Versions
    BY DEF StateInv
  <2>3. Request("dropUsers", <<ItemOf(u, panel[u], {})>>, {}, "collect")
    BY <2>2, OneItem DEF Request, JobOps
  <2> QED
    BY <2>1, <2>3
<1> QED
  BY <1>1, <1>2, <1>3, <1>4, <1>5 DEF Calls

\* What a request does: a job for the handler, and for the users of it the UUIDs to add.
LEMMA CallFact ==
  ASSUME JobInv, StateInv, NEW h \in Handlers, NEW op, NEW q, NEW T, NEW l,
         Request(op, q, T, l), Call(h, op, q, T, l)
  PROVE  /\ pc[h] = "idle" /\ Goto(h, l) /\ pc' \in [Handlers -> Phases] /\ pc'[h] = l
         /\ \A g \in Handlers : g # h => pc'[g] = pc[g]
         /\ JobStep(h, job'[h]) /\ job'[h].op = op /\ job'[h].queue = q /\ job'[h].todo = T
         /\ panel' \in [Users -> Versions] /\ \A i \in DOMAIN q : Now(q[i].user)' = q[i].new
         /\ \A u \in Users : (\A i \in DOMAIN q : q[i].user # u) => panel'[u] = panel[u]
         /\ calm' \in BOOLEAN
         /\ calm' => /\ calm /\ starting.pc = "idle"
                     /\ \A g \in Handlers \ {h} : \A i \in DOMAIN q : q[i].user \notin Named(g)
         /\ UNCHANGED <<manager, connected, faultless>>
<1> DEFINE items == {q[i] : i \in DOMAIN q}
           users == {i.user : i \in items}
           C(u) == CHOOSE i \in items : i.user = u
<1>1. /\ pc[h] = "idle" /\ Goto(h, l) /\ UNCHANGED <<manager, connected, faultless>>
      /\ job' = [job EXCEPT ![h] = [NoJob EXCEPT !.op = op, !.queue = q, !.todo = T]]
      /\ panel' = [u \in Users |-> IF u \in users THEN C(u).new[2] ELSE panel[u]]
      /\ calm' = (calm /\ starting.pc = "idle"
                       /\ \A g \in Handlers \ {h} : Named(g) \cap users = {})
  BY DEF Call
<1>2. /\ op \in JobOps /\ q \in Seq(Items) /\ T \in SUBSET Tags /\ QueueOK(op, q) /\ l \in Phases
  BY DEF Request, Phases
<1>3. \A i \in DOMAIN q : q[i] \in Items
  BY <1>2
<1>4. \A i \in DOMAIN q : C(q[i].user) = q[i]
  <2> TAKE i \in DOMAIN q
  <2>1. q[i] \in items
    OBVIOUS
  <2>2. C(q[i].user) \in items /\ C(q[i].user).user = q[i].user
    BY <2>1
  <2>3. PICK k \in DOMAIN q : C(q[i].user) = q[k]
    BY <2>2
  <2>4. k = i
    BY <1>2, <2>2, <2>3 DEF QueueOK
  <2> QED
    BY <2>3, <2>4
<1>5. \A i \in DOMAIN q : q[i].user \in users /\ q[i].user \in Users /\ q[i].new \in Uuids
                          /\ q[i].new[1] = q[i].user
  BY <1>2, <1>3 DEF QueueOK, Items
<1>6. \A u \in users : \E i \in DOMAIN q : u = q[i].user
  OBVIOUS
<1> HIDE DEF items, users, C
<1>7. \A i \in DOMAIN q : panel'[q[i].user] = q[i].new[2]
  BY <1>1, <1>4, <1>5
<1>8. \A u \in Users : (\A i \in DOMAIN q : q[i].user # u) => panel'[u] = panel[u]
  BY <1>1, <1>6
<1>9. panel' \in [Users -> Versions]
  <2>1. ASSUME NEW u \in Users PROVE panel'[u] \in Versions
    <3>1. CASE u \in users
      <4>1. PICK i \in DOMAIN q : u = q[i].user
        BY <1>6, <3>1
      <4> QED
        BY <4>1, <1>5, <1>7, UuidFact
    <3>2. CASE u \notin users
      BY <1>1, <3>2 DEF StateInv
    <3> QED
      BY <3>1, <3>2
  <2>2. panel' = [u \in Users |-> panel'[u]]
    BY <1>1
  <2> QED
    BY <2>1, <2>2
<1>10. \A i \in DOMAIN q : Now(q[i].user)' = q[i].new
  <2> TAKE i \in DOMAIN q
  <2>1. q[i].new = <<q[i].new[1], q[i].new[2]>>
    BY <1>5, UuidFact
  <2> QED
    BY <2>1, <1>5, <1>7 DEF Now
<1>11. /\ JobStep(h, job'[h]) /\ job'[h].op = op /\ job'[h].queue = q /\ job'[h].todo = T
  BY Zenon, <1>1, <1>2, NewJob
<1>12. /\ pc' \in [Handlers -> Phases] /\ pc'[h] = l /\ \A g \in Handlers : g # h => pc'[g] = pc[g]
  BY <1>1, <1>2, GotoFact
<1>13. calm' \in BOOLEAN
  BY <1>1
<1>14. calm' => /\ calm /\ starting.pc = "idle"
                /\ \A g \in Handlers \ {h} : \A i \in DOMAIN q : q[i].user \notin Named(g)
  BY <1>1, <1>5
<1> QED
  BY <1>1, <1>8, <1>9, <1>10, <1>11, <1>12, <1>13, <1>14

-----------------------------------------------------------------------------
(* The steps of a handler: where it goes and what becomes of its job.      *)

Moved(h, l, q, T) ==
  /\ pc' \in [Handlers -> Phases] /\ pc'[h] = l
  /\ job' \in [Handlers -> Jobs]
  /\ job'[h].op = job[h].op /\ job'[h].queue = q /\ job'[h].todo = T
  /\ \A g \in Handlers : g # h => pc'[g] = pc[g] /\ job'[g] = job[g]

\* A handler that goes on with a job of the same operation has moved.
LEMMA MovedIntro ==
  ASSUME JobInv, NEW h \in Handlers, NEW l \in Phases, Goto(h, l), NEW j, JobStep(h, j),
         j.op = job[h].op
  PROVE  Moved(h, l, j.queue, j.todo) /\ job'[h] = j
  BY GotoFact DEF Moved, JobStep

\* The job of a handler that works.
LEMMA WorkingJob ==
  ASSUME JobInv, PhaseInv, NEW h \in Handlers
  PROVE  /\ job[h] \in Jobs /\ pc[h] \in Phases /\ PhaseOK(pc[h], job[h])
         /\ job[h].todo \subseteq Tags /\ job[h].queue \in Seq(Items) /\ job[h].ips \subseteq Addrs
  BY DEF JobInv, PhaseInv, Jobs

\* The next step is in order when the operation is one that takes it.
LEMMA PhaseStep ==
  ASSUME NEW p, NEW j, PhaseOK(p, j), p # "idle", NEW l, NEW k, k.op = j.op, QueueOK(k.op, k.queue),
         l \in {"tag", "check", "collect", "snapshot", "remove", "drop"},
         l \in {"tag", "snapshot", "remove"} => k.op # "dropUsers",
         l = "tag" => k.op \in {"addUser", "addUsers"},
         l = "check" => k.op \in {"removeUser", "removeUsers"}
  PROVE  PhaseOK(l, k)
<1>1. k.op \in JobOps
  BY DEF PhaseOK
<1> QED
  BY <1>1 DEF PhaseOK

\* The operation and the queue of a handler that works.
LEMMA QueueFact ==
  ASSUME NEW p, NEW j, PhaseOK(p, j), p # "idle"
  PROVE  /\ j.op \in JobOps /\ QueueOK(j.op, j.queue)
         /\ p \in {"tag", "snapshot", "remove", "forget", "add", "record"} => j.op # "dropUsers"
         /\ p = "tag" => j.op \in {"addUser", "addUsers"}
         /\ p = "check" => j.op \in {"removeUser", "removeUsers"}
  BY DEF PhaseOK

\* addInboundTag leads to the next tag, the collection or the removals.
LEMMA TagMove ==
  ASSUME JobInv, PhaseInv, NEW h \in Handlers, AddInboundTag(h)
  PROVE  \E T, l : /\ Moved(h, l, job[h].queue, T) /\ l \in {"tag", "collect", "snapshot"}
                   /\ l = "collect" => job[h].op = "addUser"
                   /\ PhaseOK(l, job'[h])
<1>1. PICK t \in job[h].todo : Keep(h, "todo", job[h].todo \ {t})
  BY DEF AddInboundTag
<1> DEFINE T == job[h].todo \ {t}
           j == [job[h] EXCEPT !.todo = T]
           l == IF job'[h].todo # {} THEN "tag"
                ELSE IF job[h].op = "addUser" /\ Item(h).old # Item(h).new THEN "collect" ELSE "snapshot"
<1>2. JobStep(h, j) /\ T \subseteq Tags
  BY <1>1, WorkingJob, KeepTodo
<1>3. j.queue = job[h].queue /\ j.todo = T /\ j.op = job[h].op
  BY WorkingJob DEF Jobs
<1>4. Goto(h, l) /\ l \in {"tag", "collect", "snapshot"} /\ (l = "collect" => job[h].op = "addUser")
  BY DEF AddInboundTag
<1> HIDE DEF j, l
<1>5. Moved(h, l, job[h].queue, T) /\ job'[h] = j
  BY <1>2, <1>3, <1>4, MovedIntro DEF Phases
<1>6. PhaseOK("tag", job[h])
  BY WorkingJob DEF AddInboundTag
<1>7. PhaseOK(l, job'[h])
  BY <1>3, <1>4, <1>5, <1>6, QueueFact, PhaseStep
<1> QED
  BY <1>4, <1>5, <1>7

\* The check of a removal leads to the drop when there are no inbounds, else to the
\* collection with all tags to do.
LEMMA CheckMove ==
  ASSUME JobInv, PhaseInv, NEW h \in Handlers, RemoveCheck(h), inboundTags \subseteq Tags
  PROVE  /\ \/ inboundTags = {} /\ Moved(h, "drop", <<Item(h)>>, job[h].todo)
            \/ Moved(h, "collect", job[h].queue, inboundTags)
         /\ PhaseOK(pc'[h], job'[h])
<1>1. PhaseOK("check", job[h]) /\ pc[h] # "idle"
  BY WorkingJob DEF RemoveCheck
<1>2. CASE inboundTags = {}
  <2> DEFINE q == <<Item(h)>>
             j == [job[h] EXCEPT !.queue = q]
  <2>1. Item(h) \in Items /\ 1 \in DOMAIN job[h].queue /\ Item(h) = job[h].queue[1]
    BY <1>1, ItemFact
  <2>2. q \in Seq(Items) /\ q # <<>> /\ Len(q) = 1 /\ DOMAIN q = {1} /\ q[1] = job[h].queue[1]
    BY <2>1
  <2> HIDE DEF q
  <2>3. JobStep(h, j) /\ Goto(h, "drop")
    BY <1>2, <2>2, KeepQueue DEF RemoveCheck, q
  <2>4. j.queue = q /\ j.todo = job[h].todo /\ j.op = job[h].op
    BY WorkingJob DEF Jobs
  <2> HIDE DEF j
  <2>5. Moved(h, "drop", q, job[h].todo) /\ job'[h] = j
    BY <2>3, <2>4, MovedIntro DEF Phases
  <2>6. QueueOK(job[h].op, job[h].queue)
    BY <1>1 DEF PhaseOK
  <2>7. QueueOK(job[h].op, q)
    BY <2>1, <2>2, <2>6 DEF QueueOK
  <2>8. PhaseOK("drop", job'[h])
    BY <1>1, <2>4, <2>5, <2>7, PhaseStep
  <2> QED
    BY <1>2, <2>5, <2>8 DEF q, Moved
<1>3. CASE inboundTags # {}
  <2> DEFINE j == [job[h] EXCEPT !.todo = inboundTags]
  <2>1. JobStep(h, j) /\ Goto(h, "collect")
    BY <1>3, KeepTodo DEF RemoveCheck
  <2>2. j.queue = job[h].queue /\ j.todo = inboundTags /\ j.op = job[h].op
    BY WorkingJob DEF Jobs
  <2> HIDE DEF j
  <2>3. Moved(h, "collect", job[h].queue, inboundTags) /\ job'[h] = j
    BY <2>1, <2>2, MovedIntro DEF Phases
  <2>4. PhaseOK("collect", job'[h])
    BY <1>1, <2>2, <2>3, QueueFact, PhaseStep
  <2> QED
    BY <2>3, <2>4 DEF Moved
<1> QED
  BY <1>2, <1>3

\* The collected addresses are kept for the drop; the next step goes with the operation.
LEMMA CollectMove ==
  ASSUME JobInv, PhaseInv, NEW h \in Handlers, CollectUserIPs(h)
  PROVE  \E l : /\ Moved(h, l, job[h].queue, job[h].todo) /\ PhaseOK(l, job'[h])
                /\ l = IF job[h].op = "removeUser" THEN "remove"
                       ELSE IF job[h].op = "dropUsers" THEN "drop" ELSE "snapshot"
<1> DEFINE l == IF job[h].op = "removeUser" THEN "remove"
                ELSE IF job[h].op = "dropUsers" THEN "drop" ELSE "snapshot"
<1>1. PhaseOK("collect", job[h])
  BY WorkingJob DEF CollectUserIPs
<1>2. Goto(h, l) /\ l \in Phases
  BY DEF CollectUserIPs, Phases
<1>3. PICK A \in SUBSET Addrs : Keep(h, "ips", A)
  BY DEF CollectUserIPs
<1> DEFINE j == [job[h] EXCEPT !.ips = A]
<1>4. JobStep(h, j)
  BY <1>3, KeepIps
<1>5. j.queue = job[h].queue /\ j.todo = job[h].todo /\ j.op = job[h].op
  BY WorkingJob DEF Jobs
<1> HIDE DEF j
<1>6. Moved(h, l, job[h].queue, job[h].todo) /\ job'[h] = j
  BY <1>2, <1>4, <1>5, MovedIntro
<1>7. QueueOK(j.op, j.queue) /\ (l # "drop" => j.op # "dropUsers") /\ l \in {"remove", "drop", "snapshot"}
  BY <1>1, <1>5, QueueFact
<1>8. PhaseOK(l, j)
  <2> QED
    BY <1>1, <1>5, <1>7, PhaseStep DEF j
<1> QED
  BY <1>6, <1>8

\* The removals go through all tags known to the manager.
LEMMA SnapshotMove ==
  ASSUME JobInv, PhaseInv, NEW h \in Handlers, InboundTags(h), inboundTags \subseteq Tags
  PROVE  /\ Moved(h, IF inboundTags = {} THEN "drop" ELSE "remove", job[h].queue, inboundTags)
         /\ PhaseOK(pc'[h], job'[h])
<1> DEFINE l == IF inboundTags = {} THEN "drop" ELSE "remove"
           j == [job[h] EXCEPT !.todo = inboundTags]
<1>1. PhaseOK("snapshot", job[h])
  BY WorkingJob DEF InboundTags
<1>2. Goto(h, l) /\ l \in Phases /\ JobStep(h, j)
  BY KeepTodo DEF InboundTags, Phases
<1>3. j.queue = job[h].queue /\ j.todo = inboundTags /\ j.op = job[h].op
  BY WorkingJob DEF Jobs
<1> HIDE DEF j
<1>4. Moved(h, l, job[h].queue, inboundTags) /\ job'[h] = j
  BY <1>2, <1>3, MovedIntro
<1>5. l \in {"drop", "remove"}
  OBVIOUS
<1>6. PhaseOK(l, job'[h])
  BY <1>1, <1>3, <1>4, <1>5, QueueFact, PhaseStep
<1> QED
  BY <1>4, <1>6 DEF Moved, l

\* The steps that go through the inbounds.
LEMMA InboundStep ==
  ASSUME NEW p, NEW j, PhaseOK(p, j), p # "idle", NEW l, NEW k, k.op = j.op, k.queue = j.queue,
         k.op # "dropUsers", l \in {"forget", "record", "add"},
         l \in {"forget", "record"} => k.tag \in Tags \ k.todo,
         l = "record" => k.tag \in Head(k.queue).tags,
         l \in {"add", "record"} => k.todo \subseteq Head(k.queue).tags
  PROVE  PhaseOK(l, k)
<1>1. k.op \in JobOps /\ QueueOK(k.op, k.queue)
  BY QueueFact
<1> QED
  BY <1>1 DEF PhaseOK

\* A removal takes one tag from those to do.
LEMMA RemoveMove ==
  ASSUME JobInv, PhaseInv, NEW h \in Handlers, NEW t \in job[h].todo, pc[h] = "remove",
         job' = [job EXCEPT ![h].tag = t, ![h].todo = @ \ {t}], Goto(h, "forget")
  PROVE  /\ Moved(h, "forget", job[h].queue, job[h].todo \ {t}) /\ job'[h].tag = t
         /\ PhaseOK("forget", job'[h])
<1> DEFINE T == job[h].todo \ {t}
           j == [job[h] EXCEPT !.tag = t, !.todo = T]
<1>1. PhaseOK("remove", job[h]) /\ t \in Tags
  BY WorkingJob
<1>2. JobStep(h, j)
  BY Zenon, <1>1, TakeTag
<1>3. j.queue = job[h].queue /\ j.todo = T /\ j.op = job[h].op /\ j.tag = t
  BY WorkingJob DEF Jobs
<1>4. job[h].op # "dropUsers" /\ t \notin T
  BY <1>1, QueueFact
<1> HIDE DEF j, T
<1>5. Moved(h, "forget", job[h].queue, T) /\ job'[h] = j
  BY <1>2, <1>3, MovedIntro DEF Phases
<1>6. PhaseOK("forget", j)
  BY <1>1, <1>3, <1>4, InboundStep
<1> QED
  BY <1>3, <1>5, <1>6 DEF T

\* After the last tag comes the drop.
LEMMA ForgetMove ==
  ASSUME JobInv, PhaseInv, NEW h \in Handlers, RemoveUserFromInboundHash(h)
  PROVE  /\ Moved(h, IF job[h].todo = {} THEN "drop" ELSE "remove", job[h].queue, job[h].todo)
         /\ PhaseOK(pc'[h], job'[h])
<1> DEFINE l == IF job[h].todo = {} THEN "drop" ELSE "remove"
<1>1. PhaseOK("forget", job[h])
  BY WorkingJob DEF RemoveUserFromInboundHash
<1>2. Goto(h, l) /\ l \in {"drop", "remove"} /\ job' = job
  BY DEF RemoveUserFromInboundHash
<1> HIDE DEF l
<1>3. Moved(h, l, job[h].queue, job[h].todo)
  BY <1>2, GotoFact DEF Moved, JobInv, Phases
<1>4. PhaseOK(l, job[h])
  BY <1>1, <1>2, QueueFact, PhaseStep
<1> QED
  BY <1>2, <1>3, <1>4 DEF l, Moved

\* The end of a request, or its next user.
Onward(h) ==
  \/ pc'[h] = "idle" /\ job'[h] = NoJob
  \/ /\ job[h].op \notin {"addUser", "removeUser"} /\ Tail(job[h].queue) # <<>>
     /\ job'[h].op = job[h].op /\ job'[h].queue = Tail(job[h].queue)
     /\ pc'[h] = IF job[h].op = "addUsers" THEN "tag" ELSE "collect"

\* The end of a request or its next user is a state the invariant allows.
LEMMA OnwardMove ==
  ASSUME JobInv, PhaseInv, NEW h \in Handlers, pc[h] # "idle", NextItem(h)
  PROVE  /\ Onward(h) /\ PhaseOK(pc'[h], job'[h])
         /\ pc' \in [Handlers -> Phases] /\ job' \in [Handlers -> Jobs]
         /\ \A g \in Handlers : g # h => pc'[g] = pc[g] /\ job'[g] = job[g]
<1> DEFINE rest == Tail(job[h].queue)
           l == IF job[h].op = "addUsers" THEN "tag" ELSE "collect"
           j == [job[h] EXCEPT !.queue = rest, !.ips = {}, !.todo = Head(rest).tags]
<1>1. CASE rest = <<>> /\ JobStep(h, NoJob) /\ Goto(h, "idle")
  <2>1. PhaseOK("idle", NoJob)
    BY DEF PhaseOK
  <2>2. /\ pc' \in [Handlers -> Phases] /\ pc'[h] = "idle"
        /\ \A g \in Handlers : g # h => pc'[g] = pc[g]
    BY <1>1, GotoFact DEF Phases
  <2> QED
    BY <1>1, <2>1, <2>2 DEF JobStep, Onward
<1>2. CASE /\ rest # <<>> /\ job[h].op \notin {"addUser", "removeUser"} /\ JobStep(h, j)
           /\ Goto(h, l) /\ QueueOK(job[h].op, rest)
  <2>1. j.op = job[h].op /\ j.queue = rest
    BY WorkingJob DEF Jobs
  <2>2. l \in {"tag", "collect"} /\ (l = "tag" => job[h].op = "addUsers")
    OBVIOUS
  <2> HIDE DEF j
  <2>3. job'[h] = j
    BY <1>2 DEF JobStep
  <2>4. PhaseOK(l, j)
    <3> HIDE DEF l, rest
    <3> QED
      BY <1>2, <2>1, <2>2, WorkingJob, PhaseStep
  <2>5. /\ pc' \in [Handlers -> Phases] /\ pc'[h] = l
        /\ \A g \in Handlers : g # h => pc'[g] = pc[g]
    <3> HIDE DEF l
    <3> QED
      BY <1>2, <2>2, GotoFact DEF Phases
  <2>6. Onward(h)
    BY <1>2, <2>1, <2>3, <2>5 DEF Onward
  <2> QED
    BY <1>2, <2>3, <2>4, <2>5, <2>6 DEF JobStep
<1> QED
  BY Zenon, <1>1, <1>2, NextItemFact

\* After the drop a user without tags is done, and one with tags is added to each of
\* them.
LEMMA DropMove ==
  ASSUME JobInv, PhaseInv, NEW h \in Handlers, DropIPs(h)
  PROVE  \/ Item(h).tags = {} /\ NextItem(h)
         \/ /\ Item(h).tags # {} /\ Moved(h, "add", job[h].queue, Item(h).tags)
            /\ PhaseOK("add", job'[h])
<1>1. CASE Item(h).tags = {}
  BY <1>1 DEF DropIPs
<1>2. CASE Item(h).tags # {}
  <2> DEFINE T == Item(h).tags
             j == [job[h] EXCEPT !.todo = T]
  <2>1. pc[h] = "drop" /\ Keep(h, "todo", T) /\ Goto(h, "add")
    BY <1>2 DEF DropIPs
  <2>2. T \subseteq Tags /\ 1 \in DOMAIN job[h].queue /\ Item(h) = job[h].queue[1]
    BY <2>1, ItemFact
  <2>3. j.queue = job[h].queue /\ j.todo = T /\ j.op = job[h].op
    BY WorkingJob DEF Jobs
  <2>4. PhaseOK("drop", job[h])
    BY <2>1, WorkingJob
  <2>5. job[h].op # "dropUsers"
    BY <1>2, <2>2, <2>4, QueueFact DEF QueueOK
  <2>6. Head(j.queue).tags = T
    BY <2>3 DEF Item
  <2> HIDE DEF j, T
  <2>7. JobStep(h, j)
    BY <2>1, <2>2, KeepTodo DEF j
  <2>8. Moved(h, "add", job[h].queue, T) /\ job'[h] = j
    BY <2>1, <2>3, <2>7, MovedIntro DEF Phases
  <2>9. PhaseOK("add", j)
    BY <2>3, <2>4, <2>5, <2>6, InboundStep
  <2> QED
    BY <1>2, <2>8, <2>9 DEF T
<1> QED
  BY <1>1, <1>2

\* An addition takes one tag from those to do, and is recorded when it was accepted.
LEMMA AddMove ==
  ASSUME JobInv, PhaseInv, NEW h \in Handlers, pc[h] = "add", NEW t \in job[h].todo
  PROVE  /\ job' = [job EXCEPT ![h].tag = t, ![h].todo = @ \ {t}] /\ Goto(h, "record") =>
              /\ Moved(h, "record", job[h].queue, job[h].todo \ {t}) /\ job'[h].tag = t
              /\ PhaseOK("record", job'[h])
         /\ Keep(h, "todo", job[h].todo \ {t}) /\ pc' = pc =>
              Moved(h, "add", job[h].queue, job[h].todo \ {t}) /\ PhaseOK("add", job'[h])
<1> DEFINE T == job[h].todo \ {t}
<1>1. PhaseOK("add", job[h]) /\ t \in Tags /\ T \subseteq Tags /\ t \notin T
  BY WorkingJob
<1>2. job[h].todo \subseteq Head(job[h].queue).tags /\ job[h].op # "dropUsers"
  BY <1>1 DEF PhaseOK
<1>3. T \subseteq Head(job[h].queue).tags /\ t \in Head(job[h].queue).tags
  BY <1>2
<1>4. ASSUME job' = [job EXCEPT ![h].tag = t, ![h].todo = @ \ {t}], Goto(h, "record")
      PROVE  /\ Moved(h, "record", job[h].queue, job[h].todo \ {t}) /\ job'[h].tag = t
             /\ PhaseOK("record", job'[h])
  <2> DEFINE j == [job[h] EXCEPT !.tag = t, !.todo = T]
  <2>1. JobStep(h, j)
    BY Zenon, <1>1, <1>4, TakeTag
  <2>2. j.queue = job[h].queue /\ j.todo = T /\ j.op = job[h].op /\ j.tag = t
    BY WorkingJob DEF Jobs
  <2> HIDE DEF j, T
  <2>3. Moved(h, "record", job[h].queue, T) /\ job'[h] = j
    BY <1>4, <2>1, <2>2, MovedIntro DEF Phases
  <2>4. PhaseOK("record", j)
    BY <1>1, <1>2, <1>3, <2>2, InboundStep
  <2> QED
    BY <2>2, <2>3, <2>4 DEF T
<1>5. ASSUME Keep(h, "todo", T), pc' = pc
      PROVE  Moved(h, "add", job[h].queue, T) /\ PhaseOK("add", job'[h])
  <2> DEFINE j == [job[h] EXCEPT !.todo = T]
  <2>1. JobStep(h, j)
    BY <1>1, <1>5, KeepTodo
  <2>2. j.queue = job[h].queue /\ j.todo = T /\ j.op = job[h].op
    BY WorkingJob DEF Jobs
  <2> HIDE DEF j, T
  <2>3. Goto(h, "add")
    BY <1>5 DEF Goto, JobInv
  <2>4. Moved(h, "add", job[h].queue, T) /\ job'[h] = j
    BY <2>1, <2>2, <2>3, MovedIntro DEF Phases
  <2>5. PhaseOK("add", j)
    BY <1>1, <1>2, <1>3, <2>2, InboundStep
  <2> QED
    BY <2>4, <2>5
<1> QED
  BY <1>4, <1>5

\* After the last record the user is done.
LEMMA RecordMove ==
  ASSUME JobInv, PhaseInv, NEW h \in Handlers, AddUserToInboundHash(h)
  PROVE  \/ job[h].todo = {} /\ NextItem(h)
         \/ Moved(h, "add", job[h].queue, job[h].todo) /\ PhaseOK("add", job'[h])
<1>1. PhaseOK("record", job[h])
  BY WorkingJob DEF AddUserToInboundHash
<1>2. CASE job[h].todo = {}
  BY <1>2 DEF AddUserToInboundHash
<1>3. CASE job[h].todo # {}
  <2>1. Goto(h, "add") /\ job' = job
    BY <1>3 DEF AddUserToInboundHash
  <2>2. Moved(h, "add", job[h].queue, job[h].todo)
    BY <2>1, GotoFact DEF Moved, JobInv, Phases
  <2>3. job[h].todo \subseteq Head(job[h].queue).tags /\ job[h].op # "dropUsers"
    BY <1>1 DEF PhaseOK
  <2>4. PhaseOK("add", job[h])
    BY <1>1, <2>3, InboundStep
  <2> QED
    BY <2>1, <2>2, <2>4
<1> QED
  BY <1>2, <1>3

\* What all of these leave: the handler in order, the others as they were.
Landed(h) ==
  /\ pc' \in [Handlers -> Phases] /\ job' \in [Handlers -> Jobs]
  /\ PhaseOK(pc'[h], job'[h])
  /\ \A g \in Handlers : g # h => pc'[g] = pc[g] /\ job'[g] = job[g]

\* A handler that has landed keeps the invariants of jobs and phases.
LEMMA LandedKept ==
  ASSUME JobInv, PhaseInv, NEW h \in Handlers, Landed(h)
  PROVE  JobInv' /\ PhaseInv'
<1>1. ASSUME NEW g \in Handlers PROVE PhaseOK(pc'[g], job'[g])
  BY DEF Landed, PhaseInv
<1> QED
  BY <1>1 DEF JobInv, PhaseInv, Landed

\* A handler that moves to a phase fit for its job has landed.
LEMMA MovedLands ==
  ASSUME NEW h \in Handlers, NEW l, NEW q, NEW T, Moved(h, l, q, T), PhaseOK(l, job'[h])
  PROVE  Landed(h)
  BY DEF Moved, Landed

\* A request lands.
LEMMA CallLands ==
  ASSUME JobInv, StateInv, NEW h \in Handlers, Calls(h)
  PROVE  Landed(h)
<1>1. PICK op, q, T, l : Request(op, q, T, l) /\ Call(h, op, q, T, l)
  BY CallShape
<1>2. /\ pc' \in [Handlers -> Phases] /\ pc'[h] = l
      /\ \A g \in Handlers : g # h => pc'[g] = pc[g]
      /\ JobStep(h, job'[h]) /\ job'[h].op = op /\ job'[h].queue = q
  BY <1>1, CallFact
<1>3. PhaseOK(l, job'[h])
  BY <1>1, <1>2 DEF Request, PhaseOK
<1> QED
  BY <1>2, <1>3 DEF Landed, JobStep

\* Every step of a handler lands.
LEMMA StepLands ==
  ASSUME JobInv, PhaseInv, StateInv, NEW h \in Handlers, HandlerStep(h)
  PROVE  Landed(h)
<1> inboundTags \subseteq Tags
  BY DEF StateInv
<1>1. CASE Calls(h)
  BY <1>1, CallLands
<1>2. CASE AddInboundTag(h)
  BY <1>2, TagMove, MovedLands
<1>3. CASE RemoveCheck(h)
  BY <1>3, CheckMove DEF Moved, Landed
<1>4. CASE CollectUserIPs(h)
  BY <1>4, CollectMove, MovedLands
<1>5. CASE InboundTags(h)
  BY <1>5, SnapshotMove DEF Moved, Landed
<1>6. CASE HandlerRemoveUser(h)
  BY <1>6, RemoveMove, MovedLands DEF HandlerRemoveUser
<1>7. CASE RemoveUserFromInboundHash(h)
  BY <1>7, ForgetMove DEF Moved, Landed
<1>8. CASE DropIPs(h)
  <2>1. pc[h] # "idle"
    BY <1>8 DEF DropIPs
  <2> QED
    BY <1>8, <2>1, DropMove, MovedLands, OnwardMove DEF Landed
<1>9. CASE AddSingleUser(h)
  <2>1. PICK t \in job[h].todo :
          /\ pc[h] = "add"
          /\ \/ job' = [job EXCEPT ![h].tag = t, ![h].todo = @ \ {t}] /\ Goto(h, "record")
             \/ NextItem(h)
             \/ Keep(h, "todo", job[h].todo \ {t}) /\ pc' = pc
    BY <1>9 DEF AddSingleUser
  <2>2. pc[h] # "idle"
    BY <2>1
  <2> QED
    BY <2>1, <2>2, AddMove, MovedLands, OnwardMove DEF Landed
<1>10. CASE AddUserToInboundHash(h)
  <2>1. pc[h] # "idle"
    BY <1>10 DEF AddUserToInboundHash
  <2> QED
    BY <1>10, <2>1, RecordMove, MovedLands, OnwardMove DEF Landed
<1> QED
  BY <1>1, <1>2, <1>3, <1>4, <1>5, <1>6, <1>7, <1>8, <1>9, <1>10 DEF HandlerStep, Calls

\* Jobs stay in order.
LEMMA JobNext ==
  ASSUME JobInv, PhaseInv, StateInv, [Next]_vars
  PROVE  JobInv' /\ PhaseInv'
<1>1. CASE \E h \in Handlers : HandlerStep(h)
  BY <1>1, StepLands, LandedKept
<1>2. ASSUME UNCHANGED <<pc, job>> PROVE JobInv' /\ PhaseInv'
  BY <1>2 DEF JobInv, PhaseInv
<1>3. CASE UNCHANGED vars
  BY <1>2, <1>3 DEF vars
<1>4. CASE HandleDropIPs
  BY <1>2, <1>4 DEF HandleDropIPs
<1>5. CASE StartCall
  BY <1>2, <1>5 DEF StartCall
<1>6. CASE StartPing
  BY <1>2, <1>6 DEF StartPing
<1>7. CASE StartCompare
  BY <1>2, <1>7 DEF StartCompare
<1>8. CASE StartSkip
  BY <1>2, <1>8 DEF StartSkip
<1>9. CASE StartReplace
  BY <1>2, <1>9 DEF StartReplace
<1>10. CASE StartSpawn
  BY <1>2, <1>10 DEF StartSpawn
<1>11. CASE StartAwait
  BY <1>2, <1>11 DEF StartAwait
<1>12. CASE Stop
  BY <1>2, <1>12 DEF Stop
<1>13. CASE Health
  BY <1>2, <1>13 DEF Health
<1>14. CASE CoreExit
  BY <1>2, <1>14 DEF CoreExit
<1>15. CASE Connect
  BY <1>2, <1>15 DEF Connect
<1> QED
  BY <1>1, <1>2, <1>3, <1>4, <1>5, <1>6, <1>7, <1>8, <1>9, <1>10, <1>11, <1>12, <1>13, <1>14, <1>15
     DEF Next

-----------------------------------------------------------------------------
(* What the steps do to the core and to the hash state.                    *)

\* Removing a user from an inbound of the core touches no other user and no other
\* inbound.
LEMMA RemoveFact ==
  ASSUME NEW C \in Inbounds, OneEach(C), NEW t \in DOMAIN C, NEW u
  PROVE  LET D == Put(C, t, At(C, t) \ Of(u, At(C, t)))
         IN  /\ D \in Inbounds /\ OneEach(D)
             /\ Of(u, At(D, t)) = {}
             /\ \A w, s : s # t \/ w # u => Of(w, At(D, s)) = Of(w, At(C, s))
<1> DEFINE S == At(C, t) \ Of(u, At(C, t))
           D == Put(C, t, S)
<1>1. t \in Tags /\ At(C, t) \subseteq Uuids /\ At(C, t) = C[t]
  BY InboundsFact DEF At
<1>2. S \in SUBSET Uuids /\ S \subseteq C[t]
  BY <1>1
<1>3. Of(u, S) = {} /\ \A w : w # u => Of(w, S) = Of(w, At(C, t))
  BY DEF Of
<1> HIDE DEF S
<1>a. t \in Tags /\ S \in SUBSET Uuids
  BY <1>1, <1>2
<1>b. At(D, t) = S /\ \A s : s # t => At(D, s) = At(C, s)
  BY PutAt
<1>4. D \in Inbounds
  BY <1>a, PutFact
<1>5. OneEach(D)
  BY <1>2 DEF OneEach, Put
<1> HIDE DEF D
<1>6. \A w, s : s # t \/ w # u => Of(w, At(D, s)) = Of(w, At(C, s))
  BY <1>3, <1>b
<1> QED
  BY <1>3, <1>4, <1>5, <1>6, <1>b DEF D, S

\* Adding a user the inbound has not touches no other user and no other inbound.
LEMMA AcceptFact ==
  ASSUME NEW C \in Inbounds, OneEach(C), NEW t \in DOMAIN C, NEW u, Of(u, C[t]) = {},
         NEW x \in Uuids, x[1] = u
  PROVE  LET D == Put(C, t, C[t] \cup {x})
         IN  /\ D \in Inbounds /\ OneEach(D)
             /\ Of(u, At(C, t)) = {} /\ Of(u, At(D, t)) = {x}
             /\ \A w, s : s # t \/ w # u => Of(w, At(D, s)) = Of(w, At(C, s))
<1> DEFINE S == C[t] \cup {x}
           D == Put(C, t, S)
<1>1. t \in Tags /\ At(C, t) \subseteq Uuids /\ At(C, t) = C[t]
  BY InboundsFact DEF At
<1>2. S \in SUBSET Uuids
  BY <1>1
<1>3. Of(u, S) = {x} /\ \A w : w # u => Of(w, S) = Of(w, At(C, t))
  BY <1>1 DEF Of
<1>4. \A y, z \in S : y[1] = z[1] => y = z
  BY DEF OneEach, Of
<1> HIDE DEF S
<1>a. t \in Tags /\ S \in SUBSET Uuids
  BY <1>1, <1>2
<1>b. At(D, t) = S /\ \A s : s # t => At(D, s) = At(C, s)
  BY PutAt
<1>5. D \in Inbounds
  BY <1>a, PutFact
<1>6. OneEach(D)
  BY <1>4 DEF OneEach, Put
<1> HIDE DEF D
<1>7. \A w, s : s # t \/ w # u => Of(w, At(D, s)) = Of(w, At(C, s))
  BY <1>3, <1>b
<1> QED
  BY <1>1, <1>3, <1>5, <1>6, <1>7, <1>b DEF D, S

\* RemoveUserFromInboundHash takes one UUID from one inbound.
LEMMA ForgetFact ==
  ASSUME NEW H, NEW t, NEW x, NEW D,
         LET S == At(H, t) \ {x} IN D = Put(H, t, S) \/ (S = {} /\ D = Drop(H, t))
  PROVE  /\ Of(x[1], At(D, t)) = Of(x[1], At(H, t)) \ {x}
         /\ \A s : s # t => At(D, s) = At(H, s)
         /\ \A w : w # x[1] => Of(w, At(D, t)) = Of(w, At(H, t))
<1> DEFINE S == At(H, t) \ {x}
<1>1. Of(x[1], S) = Of(x[1], At(H, t)) \ {x} /\ \A w : w # x[1] => Of(w, S) = Of(w, At(H, t))
  BY DEF Of
<1>2. At(D, t) = S /\ \A s : s # t => At(D, s) = At(H, s)
  BY PutAt, DropAt
<1> QED
  BY <1>1, <1>2

\* AddUserToInboundHash adds one UUID to one inbound.
LEMMA RecordFact ==
  ASSUME NEW H, NEW t, NEW x, NEW D, D = Put(H, t, At(H, t) \cup {x})
  PROVE  /\ Of(x[1], At(D, t)) = Of(x[1], At(H, t)) \cup {x}
         /\ \A s : s # t => At(D, s) = At(H, s)
         /\ \A w : w # x[1] => Of(w, At(D, t)) = Of(w, At(H, t))
<1> DEFINE S == At(H, t) \cup {x}
<1>1. Of(x[1], S) = Of(x[1], At(H, t)) \cup {x} /\ \A w : w # x[1] => Of(w, S) = Of(w, At(H, t))
  BY DEF Of
<1>2. At(D, t) = S /\ \A s : s # t => At(D, s) = At(H, s)
  BY PutAt
<1> QED
  BY <1>1, <1>2

\* The state stays what it is but for the user the handler is at.
Frame(h) ==
  /\ UNCHANGED <<calm, panel, starting, alive, online, emptyConfigHash>>
  /\ connected' \subseteq connected
  /\ faultless' \in BOOLEAN /\ (faultless' => faultless)
  /\ core' \in Inbounds /\ OneEach(core') /\ inboundHashes' \in Inbounds
  /\ inboundTags' \subseteq Tags /\ DOMAIN inboundHashes' \subseteq inboundTags'
  /\ \A u \in Users, t \in Tags : u # Item(h).user =>
       /\ Of(u, At(inboundHashes', t)) = Of(u, At(inboundHashes, t))
       /\ Of(u, At(core', t)) = Of(u, At(core, t))

\* A step that leaves hashes and core alone has touched no other user.
LEMMA SameFrame ==
  ASSUME StateInv, OneEachInv, NEW h,
         UNCHANGED <<calm, panel, starting, alive, online, emptyConfigHash, core, inboundHashes>>,
         connected' \subseteq connected, faultless' \in BOOLEAN, faultless' => faultless,
         inboundTags' \subseteq Tags, inboundTags \subseteq inboundTags'
  PROVE  Frame(h)
  BY DEF Frame, StateInv, OneEachInv

\* The hash state of a step that only calls the core, and the core of one that only
\* edits the hash state.
LEMMA CoreFrame ==
  ASSUME StateInv, NEW h,
         UNCHANGED <<calm, panel, starting, alive, online, connected, hashState>>,
         faultless' \in BOOLEAN, faultless' => faultless, core' \in Inbounds, OneEach(core'),
         \A u, t : u # Item(h).user => Of(u, At(core', t)) = Of(u, At(core, t))
  PROVE  Frame(h)
  BY DEF Frame, StateInv, hashState

\* A step that changes the hashes of its own user has touched no other.
LEMMA HashFrame ==
  ASSUME StateInv, OneEachInv, NEW h,
         UNCHANGED <<calm, panel, starting, alive, online, connected, emptyConfigHash, core, faultless>>,
         inboundHashes' \in Inbounds, inboundTags' \subseteq Tags, DOMAIN inboundHashes' \subseteq inboundTags',
         \A u, t : u # Item(h).user => Of(u, At(inboundHashes', t)) = Of(u, At(inboundHashes, t))
  PROVE  Frame(h)
  BY DEF Frame, StateInv, OneEachInv

\* A fault is remembered, and a call is refused only by a core that is dead.
LEMMA FaultFact ==
  ASSUME StateInv
  PROVE  /\ NoFault \/ Faulted \/ Refused => faultless' \in BOOLEAN /\ (faultless' => faultless)
         /\ Faulted => ~faultless'
         /\ Refused /\ faultless' => ~alive
<1> alive \in BOOLEAN /\ faultless \in BOOLEAN
  BY DEF StateInv
<1>1. ASSUME NoFault PROVE faultless' \in BOOLEAN /\ (faultless' => faultless)
  BY <1>1 DEF NoFault
<1>2. ASSUME Faulted PROVE faultless' \in BOOLEAN /\ ~faultless'
  BY <1>2 DEF Faulted
<1>3. ASSUME Refused PROVE faultless' \in BOOLEAN /\ (faultless' => faultless) /\ (faultless' => ~alive)
  BY <1>3 DEF Refused
<1> QED
  BY Zenon, <1>1, <1>2, <1>3

\* After an answered removal without faults the core has the user in the tag no more.
LEMMA RemoveEffect ==
  ASSUME JobInv, PhaseInv, StateInv, OneEachInv, NEW h \in Handlers, HandlerRemoveUser(h)
  PROVE  /\ Frame(h) /\ UNCHANGED inboundHashes
         /\ \E t \in job[h].todo :
              /\ Moved(h, "forget", job[h].queue, job[h].todo \ {t}) /\ job'[h].tag = t
              /\ alive /\ faultless' => Of(Item(h).user, At(core', t)) = {}
              /\ \A s : s # t => Of(Item(h).user, At(core', s)) = Of(Item(h).user, At(core, s))
<1> DEFINE u == Item(h).user
           without(t) == Put(core, t, At(core, t) \ Of(u, At(core, t)))
           removed(t) == IF t \in DOMAIN core THEN without(t) ELSE core
<1>1. PICK t \in job[h].todo :
        /\ pc[h] = "remove" /\ job' = [job EXCEPT ![h].tag = t, ![h].todo = @ \ {t}] /\ Goto(h, "forget")
        /\ \/ Reached /\ NoFault /\ core' = removed(t)
           \/ Faulted /\ core' \in {core, removed(t)}
           \/ Refused /\ UNCHANGED core
        /\ UNCHANGED <<online, alive, hashState, starting, connected, panel, calm>>
  BY DEF HandlerRemoveUser
<1>2. core \in Inbounds /\ OneEach(core) /\ alive \in BOOLEAN /\ online \in BOOLEAN /\ faultless \in BOOLEAN
  BY DEF StateInv, OneEachInv
<1>3. /\ removed(t) \in Inbounds /\ OneEach(removed(t)) /\ Of(u, At(removed(t), t)) = {}
      /\ \A w, s : s # t \/ w # u => Of(w, At(removed(t), s)) = Of(w, At(core, s))
  <2>1. CASE t \in DOMAIN core
    BY <1>2, <2>1, RemoveFact
  <2>2. CASE t \notin DOMAIN core
    <3>1. At(core, t) = {}
      BY <2>2 DEF At
    <3>2. Of(u, At(core, t)) = {}
      BY <3>1 DEF Of
    <3> QED
      BY <1>2, <2>2, <3>2
  <2> QED
    BY <2>1, <2>2
<1> HIDE DEF removed
<1>a. \/ NoFault /\ core' = removed(t)
      \/ Faulted /\ core' \in {core, removed(t)}
      \/ Refused /\ core' = core
  BY <1>1
<1>4. /\ core' \in {core, removed(t)} /\ (alive /\ faultless' => core' = removed(t))
      /\ faultless' \in BOOLEAN /\ (faultless' => faultless)
  BY Zenon, <1>a, FaultFact
<1>5. core' \in Inbounds /\ OneEach(core')
      /\ \A w, s : s # t \/ w # u => Of(w, At(core', s)) = Of(w, At(core, s))
  BY <1>2, <1>3, <1>4
<1>6. Moved(h, "forget", job[h].queue, job[h].todo \ {t}) /\ job'[h].tag = t
  BY <1>1, RemoveMove
<1>7. Frame(h)
  BY <1>1, <1>4, <1>5, CoreFrame
<1>8. UNCHANGED inboundHashes
  BY <1>1 DEF hashState
<1>9. alive /\ faultless' => Of(u, At(core', t)) = {}
  BY <1>3, <1>4
<1> QED
  BY <1>5, <1>6, <1>7, <1>8, <1>9

\* The old UUID is gone from the hashes of the tag, and nothing else.
LEMMA ForgetEffect ==
  ASSUME JobInv, PhaseInv, StateInv, OneEachInv, NEW h \in Handlers, RemoveUserFromInboundHash(h)
  PROVE  LET t == job[h].tag
             u == Item(h).user
         IN  /\ Frame(h) /\ UNCHANGED <<core, faultless>>
             /\ Of(u, At(inboundHashes', t)) = Of(u, At(inboundHashes, t)) \ {Item(h).old}
             /\ \A s : s # t => Of(u, At(inboundHashes', s)) = Of(u, At(inboundHashes, s))
<1> DEFINE t == job[h].tag
           u == Item(h).user
           x == Item(h).old
           left == At(inboundHashes, t) \ {x}
           E == IF left = {} THEN Drop(inboundHashes, t) ELSE Put(inboundHashes, t, left)
<1>1. pc[h] = "forget" /\ UNCHANGED <<coreState, emptyConfigHash, starting, connected, history>>
  BY DEF RemoveUserFromInboundHash
<1>2. t \in Tags /\ x[1] = u
  BY <1>1, WorkingJob, ItemFact DEF PhaseOK
<1>3. inboundHashes \in Inbounds /\ inboundTags \subseteq Tags /\ DOMAIN inboundHashes \subseteq inboundTags
  BY DEF StateInv
<1> HIDE DEF t, u, x
<1>4. CASE t \in DOMAIN inboundHashes
  <2>1. inboundHashes' = E /\ inboundTags' = IF left = {} THEN inboundTags \ {t} ELSE inboundTags
    BY <1>4 DEF RemoveUserFromInboundHash, t, x
  <2>2. /\ Of(u, At(E, t)) = Of(u, At(inboundHashes, t)) \ {x}
        /\ \A w, s : s # t \/ w # u => Of(w, At(E, s)) = Of(w, At(inboundHashes, s))
    <3>1. E = Put(inboundHashes, t, left) \/ (left = {} /\ E = Drop(inboundHashes, t))
      OBVIOUS
    <3> HIDE DEF E
    <3>2. /\ Of(x[1], At(E, t)) = Of(x[1], At(inboundHashes, t)) \ {x}
          /\ \A s : s # t => At(E, s) = At(inboundHashes, s)
          /\ \A w : w # x[1] => Of(w, At(E, t)) = Of(w, At(inboundHashes, t))
      BY <3>1, ForgetFact
    <3> QED
      BY <1>2, <3>2
  <2>3. left \in SUBSET Uuids
    BY <1>3, InboundsFact
  <2> HIDE DEF left
  <2>4. E \in Inbounds /\ DOMAIN E = IF left = {} THEN DOMAIN inboundHashes \ {t} ELSE DOMAIN inboundHashes
    <3>1. CASE left = {}
      BY <1>3, <3>1, DropFact
    <3>2. CASE left # {}
      <4>1. DOMAIN inboundHashes \cup {t} = DOMAIN inboundHashes /\ E = Put(inboundHashes, t, left)
        BY <1>4, <3>2
      <4> QED
        BY <1>2, <1>3, <2>3, <3>2, <4>1, PutFact
    <3> QED
      BY <3>1, <3>2
  <2> HIDE DEF E, left
  <2>5. inboundTags' \subseteq Tags /\ DOMAIN inboundHashes' \subseteq inboundTags'
    BY <1>3, <2>1, <2>4
  <2>6. Frame(h)
    BY <1>1, <2>1, <2>2, <2>4, <2>5, HashFrame DEF coreState, history, u
  <2> QED
    BY <1>1, <2>1, <2>2, <2>6 DEF coreState, history, u, t, x
<1>5. CASE t \notin DOMAIN inboundHashes
  <2>1. UNCHANGED <<inboundHashes, inboundTags>>
    BY <1>5 DEF RemoveUserFromInboundHash, t
  <2>2. Of(u, At(inboundHashes, t)) = {}
    BY <1>5 DEF Of, At
  <2>3. Frame(h)
    BY <1>1, <1>3, <2>1, SameFrame DEF StateInv, coreState, history
  <2> QED
    BY <1>1, <2>1, <2>2, <2>3 DEF coreState, history, u, t, x
<1> QED
  BY <1>4, <1>5

\* An accepted addition put the new UUID into the tag; a refused one lets the core keep
\* what it has.
LEMMA AddEffect ==
  ASSUME JobInv, PhaseInv, StateInv, OneEachInv, NEW h \in Handlers, AddSingleUser(h)
  PROVE  LET u == Item(h).user
         IN  /\ Frame(h) /\ UNCHANGED inboundHashes
             /\ \E t \in job[h].todo :
                  \/ /\ Moved(h, "record", job[h].queue, job[h].todo \ {t}) /\ job'[h].tag = t
                     /\ alive /\ Of(u, At(core, t)) = {} /\ Of(u, At(core', t)) = {Item(h).new}
                     /\ \A s : s # t => Of(u, At(core', s)) = Of(u, At(core, s))
                  \/ /\ NextItem(h) \/ Moved(h, "add", job[h].queue, job[h].todo \ {t})
                     /\ \A s : Of(u, At(core, s)) \subseteq Of(u, At(core', s))
                     /\ faultless' => core' = core
<1> DEFINE u == Item(h).user
<1>1. PICK t \in job[h].todo :
        /\ pc[h] = "add"
        /\ \/ /\ Reached /\ NoFault /\ Accepted(h, t) # core
              /\ core' = Accepted(h, t)
              /\ job' = [job EXCEPT ![h].tag = t, ![h].todo = @ \ {t}] /\ Goto(h, "record")
           \/ /\ \/ Reached /\ NoFault /\ Accepted(h, t) = core /\ UNCHANGED core
                 \/ Faulted /\ core' \in {core, Accepted(h, t)}
                 \/ ~Reached /\ NoFault /\ UNCHANGED core
              /\ NextItem(h) \/ (Keep(h, "todo", job[h].todo \ {t}) /\ UNCHANGED pc)
        /\ UNCHANGED <<online, alive, hashState, starting, connected, panel, calm>>
  BY DEF AddSingleUser
<1>2. core \in Inbounds /\ OneEach(core) /\ faultless \in BOOLEAN
  BY DEF StateInv, OneEachInv
<1>3. Item(h).new \in Uuids /\ Item(h).new[1] = u
  BY <1>1, ItemFact
<1>4. \/ Accepted(h, t) = core
      \/ /\ Accepted(h, t) \in Inbounds /\ OneEach(Accepted(h, t))
         /\ Of(u, At(core, t)) = {} /\ Of(u, At(Accepted(h, t), t)) = {Item(h).new}
         /\ \A w, s : s # t \/ w # u => Of(w, At(Accepted(h, t), s)) = Of(w, At(core, s))
  BY <1>2, <1>3, AcceptFact DEF Accepted
<1>a. (NoFault \/ Faulted) /\ core' \in {core, Accepted(h, t)}
  BY <1>1
<1>5. core' \in {core, Accepted(h, t)} /\ faultless' \in BOOLEAN /\ (faultless' => faultless)
  BY <1>a, FaultFact
<1>6. core' \in Inbounds /\ OneEach(core')
      /\ \A w, s : s # t \/ w # u => Of(w, At(core', s)) = Of(w, At(core, s))
  BY <1>2, <1>4, <1>5
<1>7. Frame(h)
  BY <1>1, <1>5, <1>6, CoreFrame
<1>8. UNCHANGED inboundHashes
  BY <1>1 DEF hashState
<1>9. \A s : Of(u, At(core, s)) \subseteq Of(u, At(core', s))
  BY <1>4, <1>5
<1>10. CASE /\ Reached /\ NoFault /\ Accepted(h, t) # core /\ core' = Accepted(h, t)
            /\ job' = [job EXCEPT ![h].tag = t, ![h].todo = @ \ {t}] /\ Goto(h, "record")
  <2>1. Moved(h, "record", job[h].queue, job[h].todo \ {t}) /\ job'[h].tag = t
    BY <1>1, <1>10, AddMove
  <2> QED
    BY <1>4, <1>6, <1>7, <1>8, <1>10, <2>1 DEF Reached
<1>11. CASE /\ \/ UNCHANGED core
               \/ Faulted
            /\ NextItem(h) \/ (Keep(h, "todo", job[h].todo \ {t}) /\ UNCHANGED pc)
  <2>1. faultless' => core' = core
    BY <1>11 DEF Faulted
  <2>2. NextItem(h) \/ Moved(h, "add", job[h].queue, job[h].todo \ {t})
    BY <1>1, <1>11, AddMove
  <2> QED
    BY <1>7, <1>8, <1>9, <2>1, <2>2
<1> QED
  BY <1>1, <1>10, <1>11

\* The new UUID is in the hashes of the tag, and nothing else changes.
LEMMA RecordEffect ==
  ASSUME JobInv, PhaseInv, StateInv, OneEachInv, NEW h \in Handlers, AddUserToInboundHash(h)
  PROVE  LET t == job[h].tag
             u == Item(h).user
         IN  /\ Frame(h) /\ UNCHANGED <<core, faultless>>
             /\ Of(u, At(inboundHashes', t)) = Of(u, At(inboundHashes, t)) \cup {Item(h).new}
             /\ \A s : s # t => Of(u, At(inboundHashes', s)) = Of(u, At(inboundHashes, s))
<1> DEFINE t == job[h].tag
           u == Item(h).user
           x == Item(h).new
           E == Put(inboundHashes, t, At(inboundHashes, t) \cup {x})
<1>1. /\ pc[h] = "record" /\ UNCHANGED <<coreState, emptyConfigHash, starting, connected, history>>
      /\ inboundHashes' = E /\ inboundTags' = inboundTags \cup {t}
  BY DEF AddUserToInboundHash
<1>2. t \in Tags /\ x[1] = u /\ x \in Uuids
  BY <1>1, WorkingJob, ItemFact DEF PhaseOK
<1>3. inboundHashes \in Inbounds /\ inboundTags \subseteq Tags /\ DOMAIN inboundHashes \subseteq inboundTags
  BY DEF StateInv
<1> HIDE DEF t, u, x
<1>4. /\ Of(u, At(E, t)) = Of(u, At(inboundHashes, t)) \cup {x}
      /\ \A w, s : s # t \/ w # u => Of(w, At(E, s)) = Of(w, At(inboundHashes, s))
  <2> HIDE DEF E
  <2>1. /\ Of(x[1], At(E, t)) = Of(x[1], At(inboundHashes, t)) \cup {x}
        /\ \A s : s # t => At(E, s) = At(inboundHashes, s)
        /\ \A w : w # x[1] => Of(w, At(E, t)) = Of(w, At(inboundHashes, t))
    BY RecordFact DEF E
  <2> QED
    BY <1>2, <2>1
<1>a. At(inboundHashes, t) \cup {x} \in SUBSET Uuids
  BY <1>2, <1>3, InboundsFact
<1>b. E \in Inbounds
  BY <1>2, <1>3, <1>a, PutFact
<1>5. DOMAIN E = DOMAIN inboundHashes \cup {t}
  BY DEF Put
<1> HIDE DEF E
<1>6. inboundTags' \subseteq Tags /\ DOMAIN inboundHashes' \subseteq inboundTags'
  BY <1>1, <1>2, <1>3, <1>5
<1>7. Frame(h)
  BY <1>1, <1>4, <1>6, <1>b, HashFrame DEF coreState, history, u
<1> QED
  BY <1>1, <1>4, <1>7 DEF coreState, history, t, u, x

\* The other steps touch neither hashes nor core.
LEMMA QuietFrame ==
  ASSUME JobInv, PhaseInv, StateInv, OneEachInv, NEW h \in Handlers,
         AddInboundTag(h) \/ RemoveCheck(h) \/ CollectUserIPs(h) \/ InboundTags(h) \/ DropIPs(h)
  PROVE  Frame(h) /\ UNCHANGED <<core, inboundHashes>>
<1> inboundTags \subseteq Tags /\ faultless \in BOOLEAN
  BY DEF StateInv
<1>1. CASE AddInboundTag(h)
  <2>1. PICK t \in job[h].todo : inboundTags' = inboundTags \cup {t}
    BY <1>1 DEF AddInboundTag
  <2>2. t \in Tags
    BY <2>1, WorkingJob
  <2> QED
    BY <1>1, <2>1, <2>2, SameFrame DEF AddInboundTag, coreState, history
<1>2. CASE RemoveCheck(h) \/ InboundTags(h)
  BY <1>2, SameFrame DEF RemoveCheck, InboundTags, manager, coreState, hashState, history
<1>3. CASE CollectUserIPs(h)
  <2>1. NoFault \/ Faulted \/ Refused
    BY <1>3 DEF CollectUserIPs
  <2>2. faultless' \in BOOLEAN /\ (faultless' => faultless)
    BY <2>1, FaultFact
  <2> QED
    BY <1>3, <2>2, SameFrame DEF CollectUserIPs, manager, coreState, hashState
<1>4. CASE DropIPs(h)
  <2>1. NoFault \/ Faulted
    BY <1>4 DEF DropIPs
  <2>2. faultless' \in BOOLEAN /\ (faultless' => faultless)
    BY <2>1, FaultFact
  <2>3. connected' \subseteq connected
    BY <1>4 DEF DropIPs
  <2> QED
    BY <1>4, <2>2, <2>3, SameFrame DEF DropIPs, manager, coreState, hashState
<1> QED
  BY <1>1, <1>2, <1>3, <1>4

\* Every step of a handler at work stays within the frame.
LEMMA StepFrame ==
  ASSUME JobInv, PhaseInv, StateInv, OneEachInv, NEW h \in Handlers, HandlerStep(h), ~Calls(h)
  PROVE  Frame(h)
  BY QuietFrame, RemoveEffect, ForgetEffect, AddEffect, RecordEffect DEF HandlerStep, Calls

\* A configuration with the UUIDs of now.
LEMMA ConfigFact ==
  ASSUME StateInv, NEW config \in Configs
  PROVE  LET f == [t \in DOMAIN config |-> {<<u, panel[u]>> : u \in config[t]}]
         IN  f \in Inbounds /\ OneEach(f) /\ \A t \in DOMAIN f : \A x \in f[t] : x[2] = panel[x[1]]
<1> DEFINE f == [t \in DOMAIN config |-> {<<u, panel[u]>> : u \in config[t]}]
<1>1. PICK T \in SUBSET Tags : config \in [T -> SUBSET Users]
  BY ConfigsOfUsers
<1>2. panel \in [Users -> Versions]
  BY DEF StateInv
<1>3. f \in [T -> SUBSET Uuids]
  BY <1>1, <1>2 DEF Uuids
<1>4. f \in Inbounds
  BY <1>3, InboundsIntro
<1>5. \A t \in DOMAIN f : \A x \in f[t] : \E u \in Users : x = <<u, panel[u]>>
  BY <1>1
<1>6. OneEach(f)
  BY <1>5 DEF OneEach
<1> QED
  BY <1>4, <1>5, <1>6

\* A core that is gone serves nobody.
LEMMA NoCoreFact ==
  ASSUME NoCore
  PROVE  /\ online' = FALSE /\ alive' = FALSE /\ core' \in Inbounds /\ OneEach(core') /\ connected' = {}
  BY NoInboundsFact DEF NoCore

\* The state stays in order.
LEMMA HandlerState ==
  ASSUME JobInv, PhaseInv, StateInv, OneEachInv, NEW h \in Handlers, HandlerStep(h)
  PROVE  StateInv' /\ OneEachInv'
<1>1. CASE Calls(h)
  <2>1. PICK op, q, T, l : Request(op, q, T, l) /\ Call(h, op, q, T, l)
    BY <1>1, CallShape
  <2>2. panel' \in [Users -> Versions] /\ calm' \in BOOLEAN /\ UNCHANGED <<manager, connected, faultless>>
    BY <2>1, CallFact
  <2> QED
    BY <2>2 DEF StateInv, OneEachInv, manager, coreState, hashState
<1>2. CASE ~Calls(h)
  <2>1. Frame(h)
    BY <1>2, StepFrame
  <2> QED
    BY <2>1 DEF Frame, StateInv, OneEachInv
<1> QED
  BY <1>1, <1>2

\* A start that is called keeps the state well typed.
LEMMA StartCallState ==
  ASSUME StateInv, OneEachInv, StartCall
  PROVE  StateInv' /\ OneEachInv'
<1>1. PICK config \in Configs, base \in Bases :
        starting' = [pc |-> IF online THEN "ping" ELSE "replace", base |-> base,
                     config |-> [t \in DOMAIN config |-> {<<u, panel[u]>> : u \in config[t]}]]
  BY DEF StartCall
<1> DEFINE f == [t \in DOMAIN config |-> {<<u, panel[u]>> : u \in config[t]}]
<1>2. f \in Inbounds /\ OneEach(f)
  BY ConfigFact
<1> HIDE DEF f
<1>3. /\ starting' \in [pc : StartPhases, config : Inbounds, base : Bases \cup {None}]
      /\ starting'.config = f
  BY <1>1, <1>2 DEF StartPhases, f
<1>4. calm' \in BOOLEAN /\ UNCHANGED <<coreState, hashState, connected, panel, faultless>>
  BY DEF StartCall
<1> QED
  BY <1>2, <1>3, <1>4 DEF StateInv, OneEachInv, coreState, hashState

\* The rest of a start goes on with what it has.
LEMMA StayFact ==
  ASSUME StateInv, OneEachInv, NEW l \in StartPhases, Stay(l)
  PROVE  /\ starting' \in [pc : StartPhases, config : Inbounds, base : Bases \cup {None}]
         /\ starting'.pc = l /\ starting'.config = starting.config /\ OneEach(starting'.config)
  BY DEF StateInv, OneEachInv, Stay

\* A manager that does not start is well typed.
LEMMA NoStartFact ==
  /\ NoStart \in [pc : StartPhases, config : Inbounds, base : Bases \cup {None}]
  /\ NoStart.pc = "idle" /\ NoStart.config = NoInbounds /\ OneEach(NoStart.config)
  BY NoInboundsFact DEF NoStart, StartPhases

\* The hash state taken from a configuration has its users under known tags.
LEMMA ExtractFact ==
  ASSUME StateInv, ExtractUsersFromConfig
  PROVE  /\ inboundHashes' = starting.config /\ inboundHashes' \in Inbounds
         /\ inboundTags' \subseteq Tags /\ DOMAIN inboundHashes' \subseteq inboundTags'
         /\ emptyConfigHash' \in Bases \cup {None}
<1>1. starting.config \in Inbounds /\ starting.base \in Bases \cup {None}
  BY DEF StateInv
<1>2. DOMAIN starting.config \subseteq Tags
  BY <1>1, InboundsFact
<1> QED
  BY <1>1, <1>2 DEF ExtractUsersFromConfig

\* The ping of a start keeps the state well typed.
LEMMA StartPingState ==
  ASSUME StateInv, OneEachInv, StartPing
  PROVE  StateInv' /\ OneEachInv'
<1>1. Stay("compare") \/ Stay("replace")
  BY DEF StartPing
<1>2. /\ starting' \in [pc : StartPhases, config : Inbounds, base : Bases \cup {None}]
      /\ OneEach(starting'.config)
  BY <1>1, StayFact DEF StartPhases
<1>3. online' \in BOOLEAN /\ UNCHANGED <<alive, core, hashState, connected, history>>
  BY DEF StartPing, StateInv
<1> QED
  BY <1>2, <1>3 DEF StateInv, OneEachInv, hashState, history

\* So does the comparison of the hashes.
LEMMA StartCompareState ==
  ASSUME StateInv, OneEachInv, StartCompare
  PROVE  StateInv' /\ OneEachInv'
<1>1. Stay("skip") \/ Stay("replace")
  BY DEF StartCompare
<1>2. /\ starting' \in [pc : StartPhases, config : Inbounds, base : Bases \cup {None}]
      /\ OneEach(starting'.config)
  BY <1>1, StayFact DEF StartPhases
<1>3. UNCHANGED <<coreState, hashState, connected, history>>
  BY DEF StartCompare
<1> QED
  BY <1>2, <1>3 DEF StateInv, OneEachInv, coreState, hashState, history

\* So does a start without a restart.
LEMMA StartSkipState ==
  ASSUME StateInv, OneEachInv, StartSkip
  PROVE  StateInv' /\ OneEachInv'
<1>1. starting' = NoStart /\ ExtractUsersFromConfig /\ UNCHANGED <<coreState, connected, history>>
  BY DEF StartSkip
<1> QED
  BY <1>1, NoStartFact, ExtractFact DEF StateInv, OneEachInv, coreState, history

\* So does the stop before a restart.
LEMMA StartReplaceState ==
  ASSUME StateInv, OneEachInv, StartReplace
  PROVE  StateInv' /\ OneEachInv'
<1>1. CASE ExtractUsersFromConfig /\ NoCore /\ Stay("spawn") /\ calm' = (Quiet /\ UpToDate) /\ faultless' = TRUE
  <2>1. /\ starting' \in [pc : StartPhases, config : Inbounds, base : Bases \cup {None}]
        /\ OneEach(starting'.config)
    BY <1>1, StayFact DEF StartPhases
  <2>2. calm' \in BOOLEAN /\ panel' = panel
    BY <1>1 DEF StartReplace
  <2> QED
    BY <1>1, <2>1, <2>2, ExtractFact, NoCoreFact DEF StateInv, OneEachInv
<1>2. CASE starting' = NoStart /\ UNCHANGED <<coreState, hashState, connected, calm, faultless>>
  BY <1>2, NoStartFact DEF StartReplace, StateInv, OneEachInv, coreState, hashState
<1> QED
  BY <1>1, <1>2 DEF StartReplace

\* So does the new core.
LEMMA StartSpawnState ==
  ASSUME StateInv, OneEachInv, StartSpawn
  PROVE  StateInv' /\ OneEachInv'
<1>0. UNCHANGED <<online, hashState, connected, history>>
  BY DEF StartSpawn
<1>1. CASE Stay("await") /\ alive' = TRUE /\ core' = starting.config
  <2>1. /\ starting' \in [pc : StartPhases, config : Inbounds, base : Bases \cup {None}]
        /\ OneEach(starting'.config)
    BY <1>1, StayFact DEF StartPhases
  <2>2. core' \in Inbounds /\ OneEach(core')
    BY <1>1 DEF StateInv, OneEachInv
  <2> QED
    BY <1>0, <1>1, <2>1, <2>2 DEF StateInv, OneEachInv, hashState, history
<1>2. CASE starting' = NoStart /\ UNCHANGED <<alive, core>>
  BY <1>0, <1>2, NoStartFact DEF StateInv, OneEachInv, hashState, history
<1> QED
  BY <1>1, <1>2 DEF StartSpawn

\* So does its answer.
LEMMA StartAwaitState ==
  ASSUME StateInv, OneEachInv, StartAwait
  PROVE  StateInv' /\ OneEachInv'
<1>0. starting' = NoStart /\ UNCHANGED <<hashState, history>>
  BY DEF StartAwait
<1>1. CASE online' = TRUE /\ UNCHANGED <<alive, core, connected>>
  BY <1>0, <1>1, NoStartFact DEF StateInv, OneEachInv, hashState, history
<1>2. CASE NoCore
  BY <1>0, <1>2, NoStartFact, NoCoreFact DEF StateInv, OneEachInv, hashState, history
<1> QED
  BY <1>1, <1>2 DEF StartAwait

\* So does a stop.
LEMMA StopState ==
  ASSUME StateInv, OneEachInv, Stop
  PROVE  StateInv' /\ OneEachInv'
<1>1. /\ NoCore /\ inboundHashes' = NoInbounds /\ inboundTags' = {} /\ emptyConfigHash' = None
      /\ UNCHANGED <<starting, history>>
  BY DEF Stop
<1> QED
  BY <1>1, NoCoreFact, NoInboundsFact DEF StateInv, OneEachInv, history

\* So does a health check.
LEMMA HealthState ==
  ASSUME StateInv, OneEachInv, Health
  PROVE  StateInv' /\ OneEachInv'
<1>1. online' \in BOOLEAN /\ UNCHANGED <<alive, core, hashState, starting, connected, history>>
  BY DEF Health, StateInv
<1> QED
  BY <1>1 DEF StateInv, OneEachInv, hashState, history

\* So does the exit of the core.
LEMMA CoreExitState ==
  ASSUME StateInv, OneEachInv, CoreExit
  PROVE  StateInv' /\ OneEachInv'
<1>1. /\ alive' = FALSE /\ core' = NoInbounds /\ connected' = {}
      /\ UNCHANGED <<online, hashState, starting, history>>
  BY DEF CoreExit
<1> QED
  BY <1>1, NoInboundsFact DEF StateInv, OneEachInv, hashState, history

\* So does a client that connects.
LEMMA ConnectState ==
  ASSUME StateInv, OneEachInv, Connect
  PROVE  StateInv' /\ OneEachInv'
<1>1. connected' \subseteq Users \X Addrs /\ UNCHANGED <<manager, history>>
  BY DEF Connect, StateInv
<1> QED
  BY <1>1 DEF StateInv, OneEachInv, manager, coreState, hashState, history

\* So does the drop of addresses.
LEMMA HandleDropIPsState ==
  ASSUME StateInv, OneEachInv, HandleDropIPs
  PROVE  StateInv' /\ OneEachInv'
<1>1. connected' \subseteq connected /\ UNCHANGED <<manager, history>>
  BY DEF HandleDropIPs
<1> QED
  BY <1>1 DEF StateInv, OneEachInv, manager, coreState, hashState, history

\* Every step keeps the state well typed and one UUID for each user of an inbound.
LEMMA StateNext ==
  ASSUME JobInv, PhaseInv, StateInv, OneEachInv, [Next]_vars
  PROVE  StateInv' /\ OneEachInv'
<1>1. CASE UNCHANGED vars
  BY <1>1 DEF vars, manager, coreState, hashState, history, StateInv, OneEachInv
<1>2. CASE Next
  BY <1>2, HandlerState, HandleDropIPsState, StartCallState, StartPingState,
     StartCompareState, StartSkipState, StartReplaceState, StartSpawnState,
     StartAwaitState, StopState, HealthState, CoreExitState, ConnectState DEF
     Next
<1> QED
  BY <1>1, <1>2

-----------------------------------------------------------------------------
(* The work of a handler on an inbound, from step to step.                 *)

\* The tags are added; the removals see all inbounds or find none.
LEMMA TagWork ==
  ASSUME NEW j, NEW k, NEW t, NEW H, NEW C, NEW lives \in BOOLEAN, NEW s \in BOOLEAN,
         NEW l, Head(k.queue) = Head(j.queue), k.op = j.op,
         Work("tag", j, t, H, C, lives, s), l \in {"tag", "collect", "snapshot"},
         l = "collect" => k.op # "removeUser"
  PROVE  Work(l, k, t, H, C, lives, s)
  BY DEF Work, Agree

\* The inbounds to go through are all that count somebody.
LEMMA SnapshotWork ==
  ASSUME NEW j, NEW k, NEW t, NEW H, NEW C, NEW lives \in BOOLEAN, NEW s \in BOOLEAN,
         NEW l, Head(k.queue) = Head(j.queue), k.op = j.op,
         Work("check", j, t, H, C, lives, s) \/ Work("snapshot", j, t, H, C, lives, s),
         l \in {"collect", "remove", "drop"}, IF l = "drop" THEN H = {} ELSE t \in k.todo \/ H = {}
  PROVE  Work(l, k, t, H, C, lives, s)
  BY DEF Work, Agree

\* After the addresses are collected.
LEMMA CollectWork ==
  ASSUME NEW j, NEW k, NEW t, NEW H, NEW C, NEW lives \in BOOLEAN, NEW s \in BOOLEAN,
         NEW l, Head(k.queue) = Head(j.queue), k.op = j.op,
         Work("collect", j, t, H, C, lives, s), k.todo = j.todo, NEW r \in BOOLEAN, r => s,
         k.op = "dropUsers" => Head(j.queue).old = Head(j.queue).new,
         l = IF k.op = "removeUser" THEN "remove" ELSE IF k.op = "dropUsers" THEN "drop" ELSE "snapshot"
  PROVE  Work(l, k, t, H, C, lives, r)
  BY DEF Work, Agree

\* The core has removed the user from an inbound, or is not to be trusted.
LEMMA RemoveWork ==
  ASSUME NEW j, NEW k, NEW t, NEW H, NEW C, NEW lives \in BOOLEAN, NEW s \in BOOLEAN,
         NEW l, Head(k.queue) = Head(j.queue), k.op = j.op,
         Work("remove", j, t, H, C, lives, s), NEW r \in BOOLEAN, r => s, NEW D, l = "forget",
         k.todo = j.todo \ {k.tag}, t # k.tag => D = C, t = k.tag /\ lives /\ r => D = {}
  PROVE  Work(l, k, t, H, D, lives, r)
  BY DEF Work, Agree

\* The manager has forgotten the user of an inbound.
LEMMA ForgetWork ==
  ASSUME NEW j, NEW k, NEW t, NEW H, NEW C, NEW lives \in BOOLEAN, NEW s \in BOOLEAN,
         NEW l, Head(k.queue) = Head(j.queue), k.op = j.op,
         Work("forget", j, t, H, C, lives, s), k.todo = j.todo, j.tag \notin j.todo,
         l = IF k.todo = {} THEN "drop" ELSE "remove",
         NEW G, G = IF t = j.tag THEN H \ {Head(j.queue).old} ELSE H
  PROVE  Work(l, k, t, G, C, lives, s)
  BY DEF Work, Agree

\* The additions start with nothing counted.
LEMMA DropWork ==
  ASSUME NEW j, NEW k, NEW t, NEW H, NEW C, NEW lives \in BOOLEAN, NEW s \in BOOLEAN,
         NEW l, Head(k.queue) = Head(j.queue), k.op = j.op,
         Work("drop", j, t, H, C, lives, s), NEW r \in BOOLEAN, r => s, l = "add",
         k.op # "dropUsers"
  PROVE  Work(l, k, t, H, C, lives, r)
  BY DEF Work, Agree

\* An addition that failed may still have reached the core.
LEMMA AddWork ==
  ASSUME NEW j, NEW k, NEW t, NEW H, NEW C, NEW lives \in BOOLEAN, NEW s \in BOOLEAN,
         NEW l, Head(k.queue) = Head(j.queue), k.op = j.op,
         Work("add", j, t, H, C, lives, s), NEW r \in BOOLEAN, r => s, l = "add", NEW D,
         C \subseteq D, r => D = C, k.todo # Head(j.queue).tags
  PROVE  Work(l, k, t, H, D, lives, r)
  BY DEF Work, Agree

\* The manager has recorded the user in an inbound.
LEMMA RecordWork ==
  ASSUME NEW j, NEW k, NEW t, NEW H, NEW C, NEW lives \in BOOLEAN, NEW s \in BOOLEAN,
         NEW l, Head(k.queue) = Head(j.queue), k.op = j.op,
         Work("record", j, t, H, C, lives, s), l = "add", k.todo # Head(j.queue).tags,
         NEW G, G = IF t = j.tag THEN H \cup {Head(j.queue).new} ELSE H
  PROVE  Work(l, k, t, G, C, lives, s)
  BY DEF Work, Agree

\* The other handlers' work only gets easier when a call fails.
LEMMA WorkLess ==
  ASSUME NEW p, NEW j, NEW t, NEW H, NEW C, NEW lives \in BOOLEAN, NEW s \in BOOLEAN, NEW r \in BOOLEAN,
         r => s, Work(p, j, t, H, C, lives, s)
  PROVE  Work(p, j, t, H, C, lives, r)
  BY DEF Work, Agree

-----------------------------------------------------------------------------
(* From the handler at work to all of them.                                *)

UserInv == CalmInv /\ RestInv /\ WorkInv

\* A handler at work, as long as it is calm, is the only one to have its users.
LEMMA AloneFact ==
  ASSUME CalmInv, calm, JobInv, PhaseInv, NEW h \in Handlers, pc[h] # "idle"
  PROVE  /\ starting.pc = "idle"
         /\ \A g \in Handlers : g # h => Named(g) \cap Named(h) = {}
         /\ \A g \in Handlers : g # h /\ pc[g] # "idle" => Item(g).user # Item(h).user
         /\ Item(h).new = Now(Item(h).user)
<1>1. starting.pc = "idle" /\ \A g \in Handlers : g # h => Named(g) \cap Named(h) = {}
  BY DEF CalmInv, Quiet
<1>2. Item(h).user \in Named(h) /\ 1 \in DOMAIN job[h].queue /\ Item(h) = job[h].queue[1]
  BY ItemFact
<1>3. \A g \in Handlers : g # h /\ pc[g] # "idle" => Item(g).user # Item(h).user
  BY <1>1, <1>2, ItemFact
<1>4. Item(h).new = Now(Item(h).user)
  BY <1>2 DEF CalmInv
<1> QED
  BY <1>1, <1>3, <1>4

\* A step of a handler keeps what the invariant says of the other handlers and their
\* users, and of the users at rest.
LEMMA OthersKept ==
  ASSUME JobInv, PhaseInv, StateInv, UserInv, calm, NEW h \in Handlers, pc[h] # "idle",
         Frame(h), Landed(h)
  PROVE  /\ \A g \in Handlers : g # h /\ pc'[g] # "idle" => \A t \in Tags : WorkOK(g, t)'
         /\ \A u \in Users, t \in Tags : u # Item(h).user /\ Resting(u)' =>
              Counted(u, t)' \subseteq {Now(u)'} /\ Sound(u, t)'
<1>0. alive \in BOOLEAN /\ faultless \in BOOLEAN /\ faultless' \in BOOLEAN
  BY DEF StateInv, Frame
<1>1. ASSUME NEW g \in Handlers, g # h, pc'[g] # "idle", NEW t \in Tags PROVE WorkOK(g, t)'
  <2>1. pc'[g] = pc[g] /\ job'[g] = job[g]
    BY <1>1 DEF Landed
  <2>2. WorkOK(g, t)
    BY <1>1, <2>1 DEF UserInv, WorkInv
  <2>3. Item(g).user \in Users /\ Item(g).user # Item(h).user
    BY <1>1, <2>1, ItemFact, AloneFact DEF UserInv
  <2>4. /\ Of(Item(g).user, At(inboundHashes', t)) = Of(Item(g).user, At(inboundHashes, t))
        /\ Of(Item(g).user, At(core', t)) = Of(Item(g).user, At(core, t))
    BY <2>3 DEF Frame
  <2>5. Work(pc[g], job[g], t, Of(Item(g).user, At(inboundHashes, t)),
             Of(Item(g).user, At(core, t)), alive, faultless)
    BY <2>2 DEF WorkOK, Counted, Served
  <2>6. Work(pc[g], job[g], t, Of(Item(g).user, At(inboundHashes, t)),
             Of(Item(g).user, At(core, t)), alive, faultless')
    BY <1>0, <2>5, WorkLess DEF Frame
  <2>7. Item(g)' = Item(g) /\ alive' = alive
    BY <2>1 DEF Item, Frame
  <2> QED
    BY <2>1, <2>4, <2>6, <2>7 DEF WorkOK, Counted, Served
<1>2. ASSUME NEW u \in Users, NEW t \in Tags, u # Item(h).user, Resting(u)'
      PROVE  Counted(u, t)' \subseteq {Now(u)'} /\ Sound(u, t)'
  <2>1. ASSUME NEW g \in Handlers PROVE pc[g] = "idle" \/ Item(g).user # u
    <3>1. pc'[g] = "idle" \/ Head(job'[g].queue).user # u
      BY <1>2 DEF Resting, Item
    <3> QED
      BY <1>2, <3>1 DEF Landed, Item
  <2>2. Counted(u, t) \subseteq {Now(u)} /\ Sound(u, t)
    BY <1>2, <2>1 DEF UserInv, RestInv, Resting
  <2>3. /\ Of(u, At(inboundHashes', t)) = Of(u, At(inboundHashes, t))
        /\ Of(u, At(core', t)) = Of(u, At(core, t)) /\ alive' = alive /\ panel' = panel
        /\ faultless' => faultless
    BY <1>2 DEF Frame
  <2> QED
    BY <1>0, <2>2, <2>3 DEF Counted, Served, Sound, Agree, Now
<1> QED
  BY <1>1, <1>2

\* A step of a handler that adds nobody to its queue keeps the calls of the Panel in
\* order.
LEMMA CalmKept ==
  ASSUME JobInv, PhaseInv, StateInv, UserInv, calm, NEW h \in Handlers, pc[h] # "idle",
         Frame(h), Landed(h),
         \A i \in DOMAIN job'[h].queue : \E k \in DOMAIN job[h].queue : job'[h].queue[i] = job[h].queue[k]
  PROVE  CalmInv'
<1>1. starting'.pc = "idle"
  BY AloneFact DEF UserInv, Frame
<1>2. \A g \in Handlers : \A i \in DOMAIN job'[g].queue :
        \E k \in DOMAIN job[g].queue : job'[g].queue[i] = job[g].queue[k]
  BY DEF Landed
<1>3. \A g \in Handlers : Named(g)' \subseteq Named(g)
  BY <1>2 DEF Named
<1>4. \A g, e \in Handlers : g # e => Named(g) \cap Named(e) = {}
  BY DEF UserInv, CalmInv
<1>5. \A g, e \in Handlers : g # e => Named(g)' \cap Named(e)' = {}
  <2> TAKE g, e \in Handlers
  <2> QED
    BY <1>3, <1>4
<1>6. \A g \in Handlers : \A i \in DOMAIN job[g].queue : job[g].queue[i].new = Now(job[g].queue[i].user)
  BY DEF UserInv, CalmInv
<1>8. \A g \in Handlers : \A i \in DOMAIN job'[g].queue :
        job'[g].queue[i].new = <<job'[g].queue[i].user, panel'[job'[g].queue[i].user]>>
  <2> TAKE g \in Handlers
  <2> TAKE i \in DOMAIN job'[g].queue
  <2>1. PICK k \in DOMAIN job[g].queue : job'[g].queue[i] = job[g].queue[k]
    BY <1>2
  <2>2. job'[g].queue[i].new = Now(job'[g].queue[i].user)
    BY <1>6, <2>1
  <2> QED
    BY <2>2 DEF Now, Frame
<1> QED
  BY <1>1, <1>5, <1>8 DEF CalmInv, Now

\* A handler that stays with its user keeps the invariant when its own part of it holds.
LEMMA SameItem ==
  ASSUME JobInv, PhaseInv, StateInv, UserInv, calm, NEW h \in Handlers, pc[h] # "idle",
         Frame(h), Landed(h), pc'[h] # "idle",
         job'[h].queue = job[h].queue \/ job'[h].queue = <<Item(h)>>,
         \A t \in Tags : Work(pc'[h], job'[h], t, Of(Item(h).user, At(inboundHashes', t)),
                              Of(Item(h).user, At(core', t)), alive, faultless')
  PROVE  UserInv'
<1>1. Head(job'[h].queue) = Item(h)
      /\ \A i \in DOMAIN job'[h].queue : \E k \in DOMAIN job[h].queue : job'[h].queue[i] = job[h].queue[k]
  <2>1. CASE job'[h].queue = job[h].queue
    BY <2>1 DEF Item
  <2>2. CASE job'[h].queue = <<Item(h)>>
    <3>1. Head(job'[h].queue) = Item(h) /\ \A i \in DOMAIN job'[h].queue : job'[h].queue[i] = Item(h)
      BY <2>2
    <3> QED
      BY <3>1, ItemFact
  <2> QED
    BY <2>1, <2>2
<1>2. CalmInv'
  BY <1>1, CalmKept
<1>3. \A t \in Tags : WorkOK(h, t)'
  BY <1>1 DEF WorkOK, Counted, Served, Frame, Item
<1>4. WorkInv'
  <2>1. ASSUME NEW g \in Handlers, pc'[g] # "idle", NEW t \in Tags PROVE WorkOK(g, t)'
    BY <1>3, <2>1, OthersKept
  <2> QED
    BY <2>1 DEF WorkInv
<1>5. RestInv'
  <2>1. ASSUME NEW u \in Users, NEW t \in Tags, Resting(u)'
        PROVE  Counted(u, t)' \subseteq {Now(u)'} /\ Sound(u, t)'
    <3>1. u # Item(h).user
      BY <1>1, <2>1 DEF Resting, Item
    <3> QED
      BY <2>1, <3>1, OthersKept
  <2> QED
    BY <2>1 DEF RestInv
<1> QED
  BY <1>2, <1>4, <1>5 DEF UserInv

\* The head of a sequence is its first element.
LEMMA FirstFact ==
  ASSUME NEW S, NEW s \in Seq(S), s # <<>>
  PROVE  Head(s) = s[1] /\ 1 \in DOMAIN s
  OBVIOUS

\* The head of the tail is the second.
LEMMA SecondFact ==
  ASSUME NEW S, NEW s \in Seq(S), s # <<>>, Tail(s) # <<>>
  PROVE  2 \in DOMAIN s /\ Head(Tail(s)) = s[2]
<1> DEFINE r == Tail(s)
<1>1. r \in Seq(S) /\ Len(r) = Len(s) - 1 /\ \A i \in 1..Len(r) : r[i] = s[i + 1]
  BY HeadTailProperties
<1>2. Len(s) \in Nat /\ DOMAIN s = 1..Len(s) /\ Len(r) \in Nat
  BY <1>1, LenProperties
<1>3. Len(r) # 0
  BY <1>1, EmptySeq
<1>4. Head(r) = r[1]
  BY <1>1, FirstFact
<1> HIDE DEF r
<1>5. 1 \in 1..Len(r) /\ 2 \in 1..Len(s)
  BY <1>1, <1>2, <1>3
<1> QED
  BY <1>1, <1>2, <1>4, <1>5 DEF r

\* A handler that is through with a user leaves it counted as it is served, and finds the
\* next one so.
LEMMA NextUser ==
  ASSUME JobInv, PhaseInv, StateInv, UserInv, calm, NEW h \in Handlers, pc[h] # "idle",
         Frame(h), Landed(h), Onward(h),
         \A t \in Tags :
           /\ Of(Item(h).user, At(inboundHashes', t)) \subseteq {Item(h).new}
           /\ Agree(Of(Item(h).user, At(inboundHashes', t)), Of(Item(h).user, At(core', t)), alive, faultless')
  PROVE  UserInv'
<1> DEFINE u == Item(h).user
           q == job[h].queue
<1>1. q \in Seq(Items) /\ q # <<>> /\ QueueOK(job[h].op, q) /\ 1 \in DOMAIN q /\ Item(h) = q[1]
  BY WorkingJob, ItemFact DEF PhaseOK, QueueOK
<1>2. alive' = alive /\ panel' = panel
  BY DEF Frame
<1>3. \A i \in DOMAIN job'[h].queue : \E k \in DOMAIN q : job'[h].queue[i] = q[k]
  <2>1. CASE job'[h] = NoJob
    <3>1. job'[h].queue = <<>> /\ DOMAIN (<<>>) = {}
      BY <2>1 DEF NoJob
    <3> QED
      BY <3>1
  <2>2. CASE job'[h].queue = Tail(q)
    <3>1. \A i \in DOMAIN Tail(q) : i + 1 \in DOMAIN q /\ Tail(q)[i] = q[i + 1]
      BY <1>1, HeadTailProperties, LenProperties
    <3> QED
      BY <2>2, <3>1
  <2> QED
    BY <2>1, <2>2 DEF Onward
<1>4. CalmInv'
  BY <1>3, CalmKept
<1>5. ASSUME NEW w \in Users, NEW t \in Tags, w = u
      PROVE  Counted(w, t)' \subseteq {Now(w)'} /\ Sound(w, t)'
  <2>1. /\ Of(w, At(inboundHashes', t)) \subseteq {Now(w)}
        /\ Agree(Of(w, At(inboundHashes', t)), Of(w, At(core', t)), alive, faultless')
    BY <1>5, AloneFact DEF UserInv
  <2> QED
    BY <1>2, <2>1 DEF Counted, Served, Sound, Now
<1>6. RestInv'
  <2>1. ASSUME NEW w \in Users, NEW t \in Tags, Resting(w)'
        PROVE  Counted(w, t)' \subseteq {Now(w)'} /\ Sound(w, t)'
    BY <1>5, <2>1, OthersKept
  <2> QED
    BY <2>1 DEF RestInv
<1>7. ASSUME pc'[h] # "idle", NEW t \in Tags PROVE WorkOK(h, t)'
  <2>1. /\ job[h].op \notin {"addUser", "removeUser"} /\ Tail(q) # <<>>
        /\ job'[h].op = job[h].op /\ job'[h].queue = Tail(q) /\ pc'[h] \in {"tag", "collect"}
    BY <1>7 DEF Onward
  <2> DEFINE x == Head(Tail(q))
  <2>2. 2 \in DOMAIN q /\ x = q[2]
    BY <1>1, <2>1, SecondFact
  <2>3. x.old = x.new /\ x.user # u /\ x \in Items /\ x.user \in Users
    <3>1. q[2].old = q[2].new
      BY <1>1, <2>1, <2>2 DEF QueueOK
    <3>2. q[2].user # q[1].user
      BY <1>1, <2>2 DEF QueueOK
    <3>3. q[2] \in Items
      BY <1>1, <2>2
    <3> QED
      BY <1>1, <2>2, <3>1, <3>2, <3>3 DEF Items
  <2>4. x.user \in Named(h) /\ x.new = Now(x.user)
    BY <2>2 DEF Named, UserInv, CalmInv
  <2>5. Resting(x.user)
    <3>1. ASSUME NEW g \in Handlers, pc[g] # "idle" PROVE Item(g).user # x.user
      <4>1. CASE g = h
        BY <2>3, <4>1
      <4>2. CASE g # h
        <5>1. Item(g).user \in Named(g) /\ Named(g) \cap Named(h) = {}
          BY <3>1, <4>2, ItemFact, AloneFact DEF UserInv
        <5> QED
          BY <2>4, <5>1
      <4> QED
        BY <4>1, <4>2
    <3> QED
      BY <3>1 DEF Resting
  <2>6. Counted(x.user, t) \subseteq {x.old} /\ Sound(x.user, t)
    BY <2>3, <2>4, <2>5 DEF UserInv, RestInv
  <2>7. /\ Of(x.user, At(inboundHashes', t)) = Of(x.user, At(inboundHashes, t))
        /\ Of(x.user, At(core', t)) = Of(x.user, At(core, t))
        /\ faultless' => faultless
    BY <2>3 DEF Frame
  <2>8. alive \in BOOLEAN /\ faultless \in BOOLEAN /\ faultless' \in BOOLEAN
    BY DEF StateInv, Frame
  <2>9. Of(x.user, At(inboundHashes', t)) \subseteq {x.old}
        /\ Agree(Of(x.user, At(inboundHashes', t)), Of(x.user, At(core', t)), alive, faultless')
    BY <2>6, <2>7, <2>8 DEF Sound, Agree, Counted, Served
  <2>10. Head(job'[h].queue) = x /\ job'[h].op # "removeUser"
    BY <2>1
  <2> HIDE DEF x
  <2>11. Work(pc'[h], job'[h], t, Of(x.user, At(inboundHashes', t)), Of(x.user, At(core', t)), alive, faultless')
    BY <2>1, <2>9, <2>10 DEF Work
  <2> QED
    BY <1>2, <2>10, <2>11 DEF WorkOK, Item, Counted, Served
<1>8. WorkInv'
  <2>1. ASSUME NEW g \in Handlers, pc'[g] # "idle", NEW t \in Tags PROVE WorkOK(g, t)'
    BY <1>7, <2>1, OthersKept
  <2> QED
    BY <2>1 DEF WorkInv
<1> QED
  BY <1>4, <1>6, <1>8 DEF UserInv

-----------------------------------------------------------------------------
(* Every step of a handler.                                                *)

Base == JobInv /\ PhaseInv /\ StateInv /\ OneEachInv

\* What is known of the handler at work before its step.
LEMMA WorkFact ==
  ASSUME Base, UserInv, calm, NEW h \in Handlers, pc[h] # "idle"
  PROVE  \A t \in Tags : Work(pc[h], job[h], t, Of(Item(h).user, At(inboundHashes, t)),
                              Of(Item(h).user, At(core, t)), alive, faultless)
  BY DEF UserInv, WorkInv, WorkOK, Counted, Served

\* The flags are Booleans, and a fault is not undone.
LEMMA BoolFact ==
  ASSUME Base, NEW h, Frame(h)
  PROVE  /\ alive \in BOOLEAN /\ faultless \in BOOLEAN /\ faultless' \in BOOLEAN
         /\ faultless' => faultless
  BY DEF Base, StateInv, Frame

\* Nothing is counted where there are no inbounds.
LEMMA TagFact ==
  ASSUME StateInv, NEW u, NEW t
  PROVE  t \in inboundTags \/ Of(u, At(inboundHashes, t)) = {}
<1>1. CASE t \in DOMAIN inboundHashes
  BY <1>1 DEF StateInv
<1>2. CASE t \notin DOMAIN inboundHashes
  BY <1>2 DEF Of, At
<1> QED
  BY <1>1, <1>2

\* Registering a tag keeps what is known of the users.
LEMMA TagUser ==
  ASSUME Base, UserInv, calm, NEW h \in Handlers, AddInboundTag(h)
  PROVE  UserInv'
<1>1. pc[h] = "tag"
  BY DEF AddInboundTag
<1>2. Frame(h) /\ UNCHANGED <<core, inboundHashes>> /\ Landed(h) /\ faultless' = faultless
  BY QuietFrame, StepLands DEF Base, HandlerStep, AddInboundTag, history
<1>3. PICK T, l : /\ Moved(h, l, job[h].queue, T) /\ l \in {"tag", "collect", "snapshot"}
                  /\ l = "collect" => job[h].op = "addUser"
  BY TagMove DEF Base
<1>4. /\ pc'[h] = l /\ job'[h].queue = job[h].queue /\ job'[h].op = job[h].op
      /\ Head(job'[h].queue) = Head(job[h].queue)
  BY <1>3 DEF Moved
<1>5. ASSUME NEW t \in Tags
      PROVE  Work(l, job'[h], t, Of(Item(h).user, At(inboundHashes, t)),
                  Of(Item(h).user, At(core, t)), alive, faultless)
  BY <1>1, <1>2, <1>3, <1>4, WorkFact, TagWork, BoolFact
<1> QED
  BY <1>1, <1>2, <1>3, <1>4, <1>5, SameItem DEF Base

\* So do the checks that take the tags to go through.
LEMMA CheckUser ==
  ASSUME Base, UserInv, calm, NEW h \in Handlers, RemoveCheck(h) \/ InboundTags(h)
  PROVE  UserInv'
<1>1. pc[h] \in {"check", "snapshot"} /\ faultless' = faultless
  BY DEF RemoveCheck, InboundTags, history
<1>2. Frame(h) /\ UNCHANGED <<core, inboundHashes>> /\ Landed(h)
  BY QuietFrame, StepLands DEF Base, HandlerStep
<1>3. inboundTags \subseteq Tags
  BY DEF Base, StateInv
<1>4. /\ pc'[h] \in {"collect", "remove", "drop"} /\ job'[h].op = job[h].op
      /\ job'[h].queue = job[h].queue \/ job'[h].queue = <<Item(h)>>
      /\ IF pc'[h] = "drop" THEN inboundTags = {} ELSE job'[h].todo = inboundTags
  BY <1>3, CheckMove, SnapshotMove DEF Base, Moved
<1>5. Head(job'[h].queue) = Head(job[h].queue)
  <2>1. CASE job'[h].queue = <<Item(h)>>
    BY <2>1 DEF Item
  <2> QED
    BY <1>4, <2>1
<1>6. ASSUME NEW t \in Tags
      PROVE  Work(pc'[h], job'[h], t, Of(Item(h).user, At(inboundHashes, t)),
                  Of(Item(h).user, At(core, t)), alive, faultless)
  <2>1. Work(pc[h], job[h], t, Of(Item(h).user, At(inboundHashes, t)),
             Of(Item(h).user, At(core, t)), alive, faultless)
    BY <1>1, WorkFact
  <2>2. t \in inboundTags \/ Of(Item(h).user, At(inboundHashes, t)) = {}
    BY TagFact DEF Base
  <2> QED
    BY <1>1, <1>2, <1>4, <1>5, <2>1, <2>2, SnapshotWork, BoolFact
<1>7. pc'[h] # "idle" /\ pc[h] # "idle"
  BY <1>1, <1>4
<1> QED
  BY <1>1, <1>2, <1>4, <1>6, <1>7, SameItem DEF Base

\* So does the collection of addresses.
LEMMA CollectUser ==
  ASSUME Base, UserInv, calm, NEW h \in Handlers, CollectUserIPs(h)
  PROVE  UserInv'
<1>1. pc[h] = "collect"
  BY DEF CollectUserIPs
<1>2. Frame(h) /\ UNCHANGED <<core, inboundHashes>> /\ Landed(h)
  BY QuietFrame, StepLands DEF Base, HandlerStep
<1>3. PICK l : /\ Moved(h, l, job[h].queue, job[h].todo)
               /\ l = IF job[h].op = "removeUser" THEN "remove"
                      ELSE IF job[h].op = "dropUsers" THEN "drop" ELSE "snapshot"
  BY CollectMove DEF Base
<1>4. /\ pc'[h] = l /\ job'[h].queue = job[h].queue /\ job'[h].op = job[h].op
      /\ job'[h].todo = job[h].todo /\ Head(job'[h].queue) = Head(job[h].queue) /\ l # "idle"
  BY <1>3 DEF Moved
<1>5. job[h].op = "dropUsers" => Head(job[h].queue).old = Head(job[h].queue).new
  BY <1>1, ItemFact DEF Base, Item
<1>6. ASSUME NEW t \in Tags
      PROVE  Work(l, job'[h], t, Of(Item(h).user, At(inboundHashes, t)),
                  Of(Item(h).user, At(core, t)), alive, faultless')
  <2>1. Work("collect", job[h], t, Of(Item(h).user, At(inboundHashes, t)),
             Of(Item(h).user, At(core, t)), alive, faultless)
    BY <1>1, WorkFact
  <2> QED
    BY <1>2, <1>3, <1>4, <1>5, <2>1, CollectWork, BoolFact
<1> QED
  BY <1>1, <1>2, <1>4, <1>6, SameItem DEF Base

\* So does a removal from the core, as far as its tag is concerned.
LEMMA RemoveUser ==
  ASSUME Base, UserInv, calm, NEW h \in Handlers, HandlerRemoveUser(h)
  PROVE  UserInv'
<1>1. pc[h] = "remove"
  BY DEF HandlerRemoveUser
<1>2. Frame(h) /\ UNCHANGED inboundHashes
  BY RemoveEffect DEF Base
<1>3. Landed(h)
  BY StepLands DEF Base, HandlerStep
<1>4. PICK t0 \in job[h].todo :
        /\ Moved(h, "forget", job[h].queue, job[h].todo \ {t0}) /\ job'[h].tag = t0
        /\ alive /\ faultless' => Of(Item(h).user, At(core', t0)) = {}
        /\ \A s : s # t0 => Of(Item(h).user, At(core', s)) = Of(Item(h).user, At(core, s))
  BY RemoveEffect DEF Base
<1>5. /\ pc'[h] = "forget" /\ job'[h].queue = job[h].queue /\ job'[h].op = job[h].op
      /\ job'[h].todo = job[h].todo \ {job'[h].tag} /\ Head(job'[h].queue) = Head(job[h].queue)
  BY <1>4 DEF Moved
<1>6. ASSUME NEW t \in Tags
      PROVE  Work("forget", job'[h], t, Of(Item(h).user, At(inboundHashes, t)),
                  Of(Item(h).user, At(core', t)), alive, faultless')
  <2>1. Work("remove", job[h], t, Of(Item(h).user, At(inboundHashes, t)),
             Of(Item(h).user, At(core, t)), alive, faultless)
    BY <1>1, WorkFact
  <2>2. /\ t # job'[h].tag => Of(Item(h).user, At(core', t)) = Of(Item(h).user, At(core, t))
        /\ t = job'[h].tag /\ alive /\ faultless' => Of(Item(h).user, At(core', t)) = {}
    BY <1>4
  <2> QED
    BY <1>2, <1>5, <2>1, <2>2, RemoveWork, BoolFact
<1> QED
  BY <1>1, <1>2, <1>3, <1>5, <1>6, SameItem DEF Base

\* So does the removal from the hashes, which ends what the removal from the core began.
LEMMA ForgetUser ==
  ASSUME Base, UserInv, calm, NEW h \in Handlers, RemoveUserFromInboundHash(h)
  PROVE  UserInv'
<1>1. pc[h] = "forget"
  BY DEF RemoveUserFromInboundHash
<1>2. /\ Frame(h) /\ UNCHANGED <<core, faultless>>
      /\ Of(Item(h).user, At(inboundHashes', job[h].tag))
           = Of(Item(h).user, At(inboundHashes, job[h].tag)) \ {Item(h).old}
      /\ \A s : s # job[h].tag =>
           Of(Item(h).user, At(inboundHashes', s)) = Of(Item(h).user, At(inboundHashes, s))
  BY ForgetEffect DEF Base
<1>3. Landed(h)
  BY StepLands DEF Base, HandlerStep
<1>4. Moved(h, IF job[h].todo = {} THEN "drop" ELSE "remove", job[h].queue, job[h].todo)
  BY ForgetMove DEF Base
<1>5. /\ pc'[h] = (IF job[h].todo = {} THEN "drop" ELSE "remove") /\ job'[h].queue = job[h].queue
      /\ job'[h].op = job[h].op /\ job'[h].todo = job[h].todo
      /\ Head(job'[h].queue) = Head(job[h].queue)
  BY <1>4 DEF Moved
<1>6. job[h].tag \notin job[h].todo
  BY <1>1, WorkingJob DEF Base, PhaseOK
<1>7. ASSUME NEW t \in Tags
      PROVE  Work(pc'[h], job'[h], t, Of(Item(h).user, At(inboundHashes', t)),
                  Of(Item(h).user, At(core', t)), alive, faultless')
  <2>1. Work("forget", job[h], t, Of(Item(h).user, At(inboundHashes, t)),
             Of(Item(h).user, At(core, t)), alive, faultless)
    BY <1>1, WorkFact
  <2>2. Of(Item(h).user, At(inboundHashes', t)) =
          IF t = job[h].tag THEN Of(Item(h).user, At(inboundHashes, t)) \ {Head(job[h].queue).old}
          ELSE Of(Item(h).user, At(inboundHashes, t))
    BY <1>2 DEF Item
  <2> QED
    BY <1>2, <1>5, <1>6, <2>1, <2>2, ForgetWork, BoolFact
<1>8. pc'[h] # "idle" /\ pc[h] # "idle"
  BY <1>1, <1>5
<1> QED
  BY <1>2, <1>3, <1>5, <1>7, <1>8, SameItem DEF Base

\* The end of a request or its next user.
LEMMA OnwardFact ==
  ASSUME Base, NEW h \in Handlers, pc[h] # "idle", NextItem(h)
  PROVE  Onward(h)
  BY OnwardMove DEF Base

\* So does the drop of the collected addresses.
LEMMA DropUser ==
  ASSUME Base, UserInv, calm, NEW h \in Handlers, DropIPs(h)
  PROVE  UserInv'
<1>1. pc[h] = "drop" /\ pc[h] # "idle"
  BY DEF DropIPs
<1>2. Frame(h) /\ UNCHANGED <<core, inboundHashes>> /\ Landed(h)
  BY QuietFrame, StepLands DEF Base, HandlerStep
<1>3. ASSUME NEW t \in Tags
      PROVE  Work("drop", job[h], t, Of(Item(h).user, At(inboundHashes, t)),
                  Of(Item(h).user, At(core, t)), alive, faultless)
  BY <1>1, WorkFact
<1>4. CASE NextItem(h)
  <2>1. Onward(h)
    BY <1>1, <1>4, OnwardFact
  <2>2. ASSUME NEW t \in Tags
        PROVE  /\ Of(Item(h).user, At(inboundHashes', t)) \subseteq {Item(h).new}
               /\ Agree(Of(Item(h).user, At(inboundHashes', t)), Of(Item(h).user, At(core', t)), alive, faultless')
    <3>1. /\ Of(Item(h).user, At(inboundHashes, t)) \subseteq {Item(h).new}
          /\ Agree(Of(Item(h).user, At(inboundHashes, t)), Of(Item(h).user, At(core, t)), alive, faultless)
      BY <1>3 DEF Work, Item
    <3> QED
      BY <1>2, <3>1, BoolFact DEF Agree
  <2> QED
    BY <1>1, <1>2, <2>1, <2>2, NextUser DEF Base
<1>5. CASE Moved(h, "add", job[h].queue, Item(h).tags) /\ PhaseOK("add", job'[h])
  <2>1. /\ pc'[h] = "add" /\ job'[h].queue = job[h].queue /\ job'[h].op = job[h].op
        /\ Head(job'[h].queue) = Head(job[h].queue) /\ job'[h].op # "dropUsers"
    BY <1>5, QueueFact DEF Moved
  <2>2. ASSUME NEW t \in Tags
        PROVE  Work("add", job'[h], t, Of(Item(h).user, At(inboundHashes, t)),
                    Of(Item(h).user, At(core, t)), alive, faultless')
    BY <1>2, <1>3, <2>1, DropWork, BoolFact
  <2> QED
    BY <1>1, <1>2, <2>1, <2>2, SameItem DEF Base
<1> QED
  BY <1>4, <1>5, DropMove DEF Base

\* So does an addition to the core.
LEMMA AddUser ==
  ASSUME Base, UserInv, calm, NEW h \in Handlers, AddSingleUser(h)
  PROVE  UserInv'
<1> DEFINE H(t) == Of(Item(h).user, At(inboundHashes, t))
           C(t) == Of(Item(h).user, At(core, t))
           D(t) == Of(Item(h).user, At(core', t))
<1>1. pc[h] = "add" /\ pc[h] # "idle"
  BY DEF AddSingleUser
<1>2. Frame(h) /\ UNCHANGED inboundHashes
  BY AddEffect DEF Base
<1>3. Landed(h)
  BY StepLands DEF Base, HandlerStep
<1>4. PICK t0 \in job[h].todo :
        \/ /\ Moved(h, "record", job[h].queue, job[h].todo \ {t0}) /\ job'[h].tag = t0
           /\ alive /\ C(t0) = {} /\ D(t0) = {Item(h).new} /\ \A s : s # t0 => D(s) = C(s)
        \/ /\ NextItem(h) \/ Moved(h, "add", job[h].queue, job[h].todo \ {t0})
           /\ \A s : C(s) \subseteq D(s)
           /\ faultless' => core' = core
  BY AddEffect DEF Base
<1>5. \A t \in Tags : Work("add", job[h], t, H(t), C(t), alive, faultless)
  BY <1>1, WorkFact
<1>6. alive \in BOOLEAN /\ faultless \in BOOLEAN /\ faultless' \in BOOLEAN /\ (faultless' => faultless)
  BY <1>2, BoolFact
<1>7. job[h].todo \ {t0} # Head(job[h].queue).tags
  <2>1. job[h].todo \subseteq Head(job[h].queue).tags
    BY <1>1, WorkingJob DEF Base, PhaseOK
  <2> QED
    BY <2>1
<1>8. CASE /\ Moved(h, "record", job[h].queue, job[h].todo \ {t0}) /\ job'[h].tag = t0
           /\ alive /\ C(t0) = {} /\ D(t0) = {Item(h).new} /\ \A s : s # t0 => D(s) = C(s)
  <2>1. /\ pc'[h] = "record" /\ job'[h].queue = job[h].queue /\ job'[h].op = job[h].op
        /\ Head(job'[h].queue) = Head(job[h].queue)
    BY <1>8 DEF Moved
  <2>2. ASSUME NEW t \in Tags
        PROVE  Work("record", job'[h], t, H(t), D(t), alive, faultless')
    <3>1. alive /\ D(t0) = {Head(job[h].queue).new}
      BY <1>8 DEF Item
    <3>2. Work("add", job[h], t, H(t), C(t), alive, faultless)
      BY <1>5
    <3>3. /\ t # job'[h].tag => D(t) = C(t)
          /\ t = job'[h].tag => C(t) = {} /\ D(t) = {Head(job[h].queue).new}
      BY <1>8, <3>1
    <3> DEFINE c == C(t)
               d == D(t)
               n == H(t)
               j == job[h]
               k == job'[h]
    <3>4. Work("add", j, t, n, c, alive, faultless)
      BY <3>2
    <3>5. Head(k.queue) = Head(j.queue) /\ k.op = j.op
      BY <2>1
    <3>6. /\ t # k.tag => d = c
          /\ t = k.tag => c = {} /\ d = {Head(j.queue).new}
      BY <3>3
    <3> HIDE DEF H, C, D, c, d, n, j, k
    <3>7. Work("record", k, t, n, d, alive, faultless')
      BY <1>6, <3>1, <3>4, <3>5, <3>6 DEF Work, Agree
    <3> QED
      BY <3>7 DEF c, d, n, j, k
  <2> QED
    BY <1>1, <1>2, <1>3, <2>1, <2>2, SameItem DEF Base
<1>9. CASE /\ NextItem(h)
           /\ \A s : C(s) \subseteq D(s)
           /\ faultless' => core' = core
  <2>1. Onward(h)
    BY <1>1, <1>9, OnwardFact
  <2>2. ASSUME NEW t \in Tags PROVE H(t) \subseteq {Item(h).new} /\ Agree(H(t), D(t), alive, faultless')
    <3>1. H(t) \subseteq {Item(h).new} /\ Agree(H(t), C(t), alive, faultless)
      BY <1>5 DEF Work, Item
    <3>2. C(t) \subseteq D(t) /\ (faultless' => D(t) = C(t))
      BY <1>9
    <3> HIDE DEF H, C, D
    <3> QED
      BY <1>6, <3>1, <3>2 DEF Agree
  <2> QED
    BY <1>1, <1>2, <1>3, <2>1, <2>2, NextUser DEF Base
<1>10. CASE /\ Moved(h, "add", job[h].queue, job[h].todo \ {t0})
            /\ \A s : C(s) \subseteq D(s)
            /\ faultless' => core' = core
  <2>1. /\ pc'[h] = "add" /\ job'[h].queue = job[h].queue /\ job'[h].op = job[h].op
        /\ Head(job'[h].queue) = Head(job[h].queue) /\ job'[h].todo # Head(job[h].queue).tags
    BY <1>7, <1>10 DEF Moved
  <2>2. ASSUME NEW t \in Tags PROVE Work("add", job'[h], t, H(t), D(t), alive, faultless')
    <3>1. Work("add", job[h], t, H(t), C(t), alive, faultless)
      BY <1>5
    <3>2. C(t) \subseteq D(t) /\ (faultless' => D(t) = C(t))
      BY <1>10
    <3> HIDE DEF H, C, D
    <3> QED
      BY <1>6, <2>1, <3>1, <3>2, AddWork
  <2> QED
    BY <1>1, <1>2, <1>3, <2>1, <2>2, SameItem DEF Base
<1> QED
  BY <1>4, <1>8, <1>9, <1>10

\* So does the addition to the hashes, which ends what the addition to the core began.
LEMMA RecordUser ==
  ASSUME Base, UserInv, calm, NEW h \in Handlers, AddUserToInboundHash(h)
  PROVE  UserInv'
<1> DEFINE u == Item(h).user
           G(t) == Of(Item(h).user, At(inboundHashes', t))
           H(t) == Of(Item(h).user, At(inboundHashes, t))
           C(t) == Of(Item(h).user, At(core, t))
<1>1. pc[h] = "record" /\ pc[h] # "idle"
  BY DEF AddUserToInboundHash
<1>2. /\ Frame(h) /\ UNCHANGED <<core, faultless>>
      /\ \A t : G(t) = IF t = job[h].tag THEN H(t) \cup {Item(h).new} ELSE H(t)
  BY RecordEffect DEF Base
<1>3. Landed(h)
  BY StepLands DEF Base, HandlerStep
<1>4. alive \in BOOLEAN /\ faultless \in BOOLEAN
  BY <1>2, BoolFact
<1>5. ASSUME NEW t \in Tags, NEW l, NEW k, l = "add", Head(k.queue) = Item(h), k.op = job[h].op,
             k.todo # Item(h).tags
      PROVE  Work(l, k, t, G(t), C(t), alive, faultless)
  <2>1. Work("record", job[h], t, H(t), C(t), alive, faultless)
    BY <1>1, WorkFact
  <2>2. G(t) = IF t = job[h].tag THEN H(t) \cup {Head(job[h].queue).new} ELSE H(t)
    BY <1>2 DEF Item
  <2>3. Head(k.queue) = Head(job[h].queue) /\ k.todo # Head(job[h].queue).tags
    BY <1>5 DEF Item
  <2> HIDE DEF G, H, C
  <2> QED
    BY <1>4, <1>5, <2>1, <2>2, <2>3, RecordWork
<1>6. CASE NextItem(h)
  <2>1. Onward(h)
    BY <1>1, <1>6, OnwardFact
  <2>2. ASSUME NEW t \in Tags PROVE G(t) \subseteq {Item(h).new} /\ Agree(G(t), C(t), alive, faultless)
    <3>1. Work("record", job[h], t, H(t), C(t), alive, faultless)
      BY <1>1, WorkFact
    <3>2. G(t) = IF t = job[h].tag THEN H(t) \cup {Item(h).new} ELSE H(t)
      BY <1>2
    <3> HIDE DEF G, H, C
    <3> QED
      BY <3>1, <3>2 DEF Work, Item
  <2> QED
    BY <1>1, <1>2, <1>3, <2>1, <2>2, NextUser DEF Base
<1>7. CASE Moved(h, "add", job[h].queue, job[h].todo)
  <2>1. /\ pc'[h] = "add" /\ job'[h].queue = job[h].queue /\ job'[h].op = job[h].op
        /\ job'[h].todo = job[h].todo /\ Head(job'[h].queue) = Item(h)
    BY <1>7 DEF Moved, Item
  <2>2. job[h].todo # Item(h).tags
    BY <1>1, WorkingJob DEF Base, PhaseOK, Item
  <2>3. \A t \in Tags : Work("add", job'[h], t, G(t), C(t), alive, faultless)
    BY <1>5, <2>1, <2>2
  <2> QED
    BY <1>1, <1>2, <1>3, <2>1, <2>3, SameItem DEF Base
<1> QED
  BY <1>6, <1>7, RecordMove DEF Base

\* A request finds its users at rest.
LEMMA CallUser ==
  ASSUME Base, UserInv, NEW h \in Handlers, Calls(h), calm'
  PROVE  UserInv'
<1>1. PICK op, q, T, l : Request(op, q, T, l) /\ Call(h, op, q, T, l)
  BY CallShape DEF Base
<1>2. /\ pc[h] = "idle" /\ pc'[h] = l
      /\ \A g \in Handlers : g # h => pc'[g] = pc[g] /\ job'[g] = job[g]
      /\ job'[h].op = op /\ job'[h].queue = q /\ job'[h].todo = T
      /\ \A i \in DOMAIN q : Now(q[i].user)' = q[i].new
      /\ \A u \in Users : (\A i \in DOMAIN q : q[i].user # u) => panel'[u] = panel[u]
      /\ calm /\ starting.pc = "idle"
      /\ \A g \in Handlers \ {h} : \A i \in DOMAIN q : q[i].user \notin Named(g)
  <2>1. /\ pc[h] = "idle" /\ pc'[h] = l /\ \A g \in Handlers : g # h => pc'[g] = pc[g]
        /\ JobStep(h, job'[h]) /\ job'[h].op = op /\ job'[h].queue = q /\ job'[h].todo = T
    BY <1>1, CallFact DEF Base
  <2>2. \A g \in Handlers : g # h => job'[g] = job[g]
    BY <2>1 DEF JobStep
  <2>3. /\ \A i \in DOMAIN q : Now(q[i].user)' = q[i].new
        /\ \A u \in Users : (\A i \in DOMAIN q : q[i].user # u) => panel'[u] = panel[u]
    BY <1>1, CallFact DEF Base
  <2>4. /\ calm /\ starting.pc = "idle"
        /\ \A g \in Handlers \ {h} : \A i \in DOMAIN q : q[i].user \notin Named(g)
    BY <1>1, CallFact DEF Base
  <2> QED
    BY <2>1, <2>2, <2>3, <2>4
<1>3. UNCHANGED <<core, inboundHashes, alive, starting, faultless>>
  BY <1>1, CallFact DEF Base, manager, coreState, hashState
<1>4. /\ q \in Seq(Items) /\ q # <<>> /\ QueueOK(op, q) /\ \A i \in DOMAIN q : q[i].old = Now(q[i].user)
      /\ l \in {"tag", "check", "collect"} /\ (l = "collect" => op = "dropUsers")
  BY <1>1 DEF Request, QueueOK
<1>5. \A i \in DOMAIN q : q[i] \in Items /\ q[i].user \in Users
  <2>1. \A i \in DOMAIN q : q[i] \in Items
    BY <1>4
  <2> QED
    BY <2>1 DEF Items
<1>6. Head(q) = q[1] /\ 1 \in DOMAIN q
  BY <1>4, FirstFact
<1>7. \A i \in DOMAIN q : Resting(q[i].user)
  <2> TAKE i \in DOMAIN q
  <2>1. ASSUME NEW g \in Handlers, pc[g] # "idle" PROVE Item(g).user # q[i].user
    <3>1. g # h /\ Item(g).user \in Named(g)
      BY <1>2, <2>1, ItemFact DEF Base
    <3> QED
      BY <1>2, <3>1
  <2> QED
    BY <2>1 DEF Resting
<1>8. \A i \in DOMAIN q, t \in Tags :
        Counted(q[i].user, t) \subseteq {q[i].old} /\ Sound(q[i].user, t)
  BY <1>2, <1>4, <1>5, <1>7 DEF UserInv, RestInv
<1>9. CalmInv'
  <2>1. Named(h)' = {q[i].user : i \in DOMAIN q}
    BY <1>2 DEF Named
  <2>2. \A g \in Handlers : g # h => Named(g)' = Named(g)
    BY <1>2 DEF Named
  <2>3. \A g \in Handlers : g # h => Named(g) \cap {q[i].user : i \in DOMAIN q} = {}
    BY <1>2
  <2>4. \A g, e \in Handlers : g # e => Named(g) \cap Named(e) = {}
    BY <1>2 DEF UserInv, CalmInv
  <2>5. \A g, e \in Handlers : g # e => Named(g)' \cap Named(e)' = {}
    <3> TAKE g, e \in Handlers
    <3> QED
      BY <2>1, <2>2, <2>3, <2>4
  <2>6. ASSUME NEW g \in Handlers, NEW i \in DOMAIN job'[g].queue
        PROVE  job'[g].queue[i].new = <<job'[g].queue[i].user, panel'[job'[g].queue[i].user]>>
    <3>1. CASE g = h
      <4>1. i \in DOMAIN q
        BY <1>2, <2>6, <3>1
      <4>2. <<q[i].user, panel'[q[i].user]>> = q[i].new
        BY <1>2, <4>1 DEF Now
      <4> QED
        BY <1>2, <3>1, <4>2
    <3>2. CASE g # h
      <4> DEFINE x == job[g].queue[i]
      <4>1. job'[g].queue = job[g].queue /\ i \in DOMAIN job[g].queue
        BY <1>2, <2>6, <3>2
      <4>2. x.new = <<x.user, panel[x.user]>> /\ x.user \in Named(g)
        BY <1>2, <4>1 DEF UserInv, CalmInv, Now, Named
      <4>3. x.user \in Users
        <5>1. job[g].queue \in Seq(Items)
          BY WorkingJob DEF Base
        <5>2. x \in Items
          BY <4>1, <5>1
        <5> QED
          BY <5>2 DEF Items
      <4>4. panel'[x.user] = panel[x.user]
        BY <1>2, <3>2, <4>2, <4>3
      <4> QED
        BY <4>1, <4>2, <4>4
    <3> QED
      BY <3>1, <3>2
  <2>7. starting'.pc = "idle"
    BY <1>2, <1>3
  <2> QED
    BY <2>5, <2>6, <2>7 DEF CalmInv, Now
<1>10. WorkInv'
  <2>1. ASSUME NEW g \in Handlers, pc'[g] # "idle", NEW t \in Tags PROVE WorkOK(g, t)'
    <3>1. CASE g = h
      <4> DEFINE u == q[1].user
      <4>1. /\ Of(u, At(inboundHashes', t)) \subseteq {q[1].old}
            /\ Agree(Of(u, At(inboundHashes', t)), Of(u, At(core', t)), alive', faultless')
        BY <1>3, <1>6, <1>8 DEF Counted, Served, Sound
      <4>2. Head(job'[h].queue) = q[1]
        BY <1>2, <1>6
      <4> HIDE DEF u
      <4>3. Work(l, job'[h], t, Of(u, At(inboundHashes', t)), Of(u, At(core', t)), alive', faultless')
        BY <1>2, <1>4, <4>1, <4>2 DEF Work
      <4> QED
        BY <1>2, <3>1, <4>2, <4>3 DEF WorkOK, Item, Counted, Served, u
    <3>2. CASE g # h
      <4>1. pc'[g] = pc[g] /\ job'[g] = job[g]
        BY <1>2, <3>2
      <4>2. WorkOK(g, t)
        BY <1>2, <2>1, <4>1 DEF UserInv, WorkInv
      <4> QED
        BY <1>3, <4>1, <4>2 DEF WorkOK, Item, Counted, Served
    <3> QED
      BY <3>1, <3>2
  <2> QED
    BY <2>1 DEF WorkInv
<1>11. RestInv'
  <2>1. ASSUME NEW u \in Users, NEW t \in Tags, Resting(u)'
        PROVE  Counted(u, t)' \subseteq {Now(u)'} /\ Sound(u, t)'
    <3>1. \A g \in Handlers : pc'[g] = "idle" \/ Head(job'[g].queue).user # u
      BY <2>1 DEF Resting, Item
    <3>2. ASSUME NEW i \in DOMAIN q, q[i].user = u
          PROVE  Counted(u, t)' \subseteq {Now(u)'} /\ Sound(u, t)'
      <4>1. q[1].user # u
        BY <1>2, <1>4, <1>6, <3>1
      <4>2. i # 1
        BY <3>2, <4>1
      <4>3. op # "addUser"
        BY <1>4, <1>6, <4>2, LenProperties DEF QueueOK
      <4>4. q[i].old = q[i].new
        BY <1>4, <4>3 DEF QueueOK
      <4>5. Now(u)' = q[i].new
        BY <1>2, <3>2
      <4>6. Counted(u, t) \subseteq {q[i].old} /\ Sound(u, t)
        BY <1>8, <3>2
      <4> QED
        BY <1>3, <4>4, <4>5, <4>6 DEF Counted, Served, Sound
    <3>3. ASSUME \A i \in DOMAIN q : q[i].user # u
          PROVE  Counted(u, t)' \subseteq {Now(u)'} /\ Sound(u, t)'
      <4>1. panel'[u] = panel[u]
        BY <1>2, <3>3
      <4>2. Resting(u)
        BY <1>2, <3>1 DEF Resting, Item
      <4>3. Counted(u, t) \subseteq {Now(u)} /\ Sound(u, t)
        BY <1>2, <4>2 DEF UserInv, RestInv
      <4> QED
        BY <1>3, <4>1, <4>3 DEF Counted, Served, Sound, Now
    <3> QED
      BY <3>2, <3>3
  <2> QED
    BY <2>1 DEF RestInv
<1> QED
  BY <1>9, <1>10, <1>11 DEF UserInv

\* Every step of a handler keeps what is known of the users, as long as it is calm.
LEMMA HandlerUser ==
  ASSUME Base, UserInv, NEW h \in Handlers, HandlerStep(h)
  PROVE  UserInv'
<1>1. CASE ~calm'
  BY <1>1 DEF UserInv, CalmInv, RestInv, WorkInv
<1>2. CASE calm' /\ Calls(h)
  BY <1>2, CallUser
<1>3. CASE calm' /\ ~Calls(h)
  <2>1. calm
    BY <1>3, StepFrame DEF Base, Frame
  <2> QED
    BY <1>3, <2>1, TagUser, CheckUser, CollectUser, RemoveUser, ForgetUser, DropUser, AddUser, RecordUser
       DEF HandlerStep, Calls
<1> QED
  BY <1>1, <1>2, <1>3

-----------------------------------------------------------------------------
(* The manager's steps, under the handlers' work.                          *)

\* What has to hold of the start in progress.
StartOK ==
  /\ starting.pc # "idle" => Quiet /\ UpToDate
  /\ starting.pc \in {"skip", "spawn"} => inboundHashes = starting.config

\* A step of the manager leaves the handlers and their requests as they are.
LEMMA RequestsKept ==
  ASSUME UserInv, calm, StartOK', UNCHANGED <<pc, job, panel>>
  PROVE  CalmInv'
<1>1. \A g \in Handlers : Named(g)' = Named(g)
  BY DEF Named
<1>2. \A g, e \in Handlers : g # e => Named(g) \cap Named(e) = {}
  BY DEF UserInv, CalmInv
<1>3. \A g, e \in Handlers : g # e => Named(g)' \cap Named(e)' = {}
  BY <1>1, <1>2
<1>4. \A g \in Handlers : \A i \in DOMAIN job'[g].queue :
        job'[g].queue[i].new = <<job'[g].queue[i].user, panel'[job'[g].queue[i].user]>>
  BY DEF UserInv, CalmInv, Now
<1> QED
  BY <1>3, <1>4 DEF CalmInv, StartOK, Now

\* A step that touches neither what is counted nor what is served.
LEMMA StartKept ==
  ASSUME UserInv, calm, StartOK',
         UNCHANGED <<pc, job, panel, inboundHashes, core, alive, faultless>>
  PROVE  UserInv'
<1>1. CalmInv'
  BY RequestsKept
<1>2. RestInv'
  <2>1. ASSUME NEW u \in Users, NEW t \in Tags, Resting(u)'
        PROVE  Counted(u, t)' \subseteq {Now(u)'} /\ Sound(u, t)'
    <3>1. Resting(u)
      BY <2>1 DEF Resting, Item
    <3>2. Counted(u, t) \subseteq {Now(u)} /\ Sound(u, t)
      BY <3>1 DEF UserInv, RestInv
    <3> QED
      BY <3>2 DEF Counted, Served, Sound, Now
  <2> QED
    BY <2>1 DEF RestInv
<1>3. WorkInv'
  BY DEF UserInv, WorkInv, WorkOK, Item, Counted, Served
<1> QED
  BY <1>1, <1>2, <1>3 DEF UserInv

\* A step after which no core is left.
LEMMA DeadKept ==
  ASSUME Base, UserInv, calm, UNCHANGED <<pc, job, panel>>, alive' = FALSE, faultless' \in BOOLEAN,
         StartOK',
         \A u \in Users, t \in Tags : Of(u, At(inboundHashes', t)) \subseteq Of(u, At(inboundHashes, t))
  PROVE  UserInv'
<1>0. alive \in BOOLEAN /\ faultless \in BOOLEAN
  BY DEF Base, StateInv
<1>1. CalmInv'
  BY RequestsKept
<1>2. RestInv'
  <2>1. ASSUME NEW u \in Users, NEW t \in Tags, Resting(u)'
        PROVE  Counted(u, t)' \subseteq {Now(u)'} /\ Sound(u, t)'
    <3>1. Resting(u)
      BY <2>1 DEF Resting, Item
    <3>2. Counted(u, t) \subseteq {Now(u)}
      BY <3>1 DEF UserInv, RestInv
    <3>3. Of(u, At(inboundHashes', t)) \subseteq {<<u, panel[u]>>}
      BY <3>2 DEF Counted, Now
    <3> QED
      BY <3>3 DEF Counted, Sound, Agree, Now
  <2> QED
    BY <2>1 DEF RestInv
<1>3. WorkInv'
  <2>1. ASSUME NEW g \in Handlers, pc'[g] # "idle", NEW t \in Tags PROVE WorkOK(g, t)'
    <3>1. WorkOK(g, t) /\ Item(g).user \in Users
      BY <2>1, ItemFact DEF UserInv, WorkInv, Base
    <3> DEFINE G == Of(Item(g).user, At(inboundHashes', t))
               D == Of(Item(g).user, At(core', t))
               H == Counted(Item(g).user, t)
               C == Served(Item(g).user, t)
    <3>2. G \subseteq H /\ Work(pc[g], job[g], t, H, C, alive, faultless)
      BY <3>1 DEF Counted, WorkOK
    <3> HIDE DEF G, D, H, C
    <3>3. Work(pc[g], job[g], t, G, D, FALSE, faultless')
      BY <1>0, <3>2 DEF Work, Agree
    <3> QED
      BY <3>3 DEF WorkOK, Item, Counted, Served, G, D
  <2> QED
    BY <2>1 DEF WorkInv
<1> QED
  BY <1>1, <1>2, <1>3 DEF UserInv

\* What a start in progress has now.
LEMMA StartNow ==
  ASSUME UserInv, calm
  PROVE  StartOK
  BY DEF UserInv, CalmInv, StartOK

\* A start that is called while no handler runs keeps it, too.
LEMMA StartCallUser ==
  ASSUME Base, UserInv, StartCall, calm'
  PROVE  UserInv'
<1>1. PICK config \in Configs, base \in Bases :
        starting' = [pc |-> IF online THEN "ping" ELSE "replace", base |-> base,
                     config |-> [t \in DOMAIN config |-> {<<u, panel[u]>> : u \in config[t]}]]
  BY DEF StartCall
<1> DEFINE f == [t \in DOMAIN config |-> {<<u, panel[u]>> : u \in config[t]}]
<1>2. \A t \in DOMAIN f : \A x \in f[t] : x[2] = panel[x[1]]
  BY ConfigFact DEF Base
<1> HIDE DEF f
<1>3. starting'.config = f /\ starting'.pc \in {"ping", "replace"}
  BY <1>1 DEF f
<1>4. calm /\ Quiet
  BY DEF StartCall
<1>5. UNCHANGED <<pc, job, panel, inboundHashes, core, alive, faultless>>
  BY DEF StartCall, coreState, hashState
<1>6. StartOK'
  BY <1>2, <1>3, <1>4, <1>5 DEF StartOK, Quiet, UpToDate
<1> QED
  BY <1>4, <1>5, <1>6, StartKept

\* A start that goes on with its configuration stays right.
LEMMA StayOK ==
  ASSUME UserInv, calm, starting.pc # "idle", starting'.config = starting.config,
         UNCHANGED <<pc, panel, inboundHashes>>,
         starting'.pc \in {"skip", "spawn"} => inboundHashes = starting.config
  PROVE  StartOK'
<1>1. Quiet /\ UpToDate
  BY DEF UserInv, CalmInv
<1> QED
  BY <1>1 DEF StartOK, Quiet, UpToDate

\* So does its ping.
LEMMA StartPingUser ==
  ASSUME Base, UserInv, StartPing, calm'
  PROVE  UserInv'
<1>1. /\ starting.pc = "ping" /\ UNCHANGED <<calm, pc, job, panel, inboundHashes, core, alive, faultless>>
      /\ Stay("compare") \/ Stay("replace")
  BY DEF StartPing, hashState, history
<1>2. starting'.pc \in {"compare", "replace"} /\ starting'.config = starting.config
  BY <1>1, StayFact DEF Base, StartPhases
<1> QED
  BY <1>1, <1>2, StayOK, StartKept

\* Hashes that agree in number and one by one are the same.
LEMMA SameHashes ==
  ASSUME StateInv, ~IsNeedRestartCore(starting.config, starting.base)
  PROVE  inboundHashes = starting.config
<1> DEFINE D == DOMAIN inboundHashes
           E == DOMAIN starting.config
<1>1. starting.config \in Inbounds /\ inboundHashes \in Inbounds
  BY DEF StateInv
<1>2. D \subseteq Tags /\ E \subseteq Tags
  BY <1>1, InboundsFact
<1>3. Cardinality(E) = Cardinality(D) /\ \A t \in D : t \in E /\ starting.config[t] = inboundHashes[t]
  BY DEF IsNeedRestartCore
<1>4. IsFiniteSet(E)
  BY <1>2, FiniteTags, FS_Subset
<1>5. D = E
  BY <1>3, <1>4, FS_Subset
<1>6. /\ inboundHashes = [t \in D |-> inboundHashes[t]]
      /\ starting.config = [t \in E |-> starting.config[t]]
  BY <1>1, InboundsFact
<1> QED
  BY <1>3, <1>5, <1>6

\* So does its comparison: equal hashes mean equal users.
LEMMA StartCompareUser ==
  ASSUME Base, UserInv, StartCompare, calm'
  PROVE  UserInv'
<1>1. /\ starting.pc = "compare"
      /\ UNCHANGED <<calm, pc, job, panel, inboundHashes, core, alive, faultless>>
  BY DEF StartCompare, coreState, hashState, history
<1>2. CASE IsNeedRestartCore(starting.config, starting.base)
  <2>1. starting'.pc = "replace" /\ starting'.config = starting.config
    BY <1>2, StayFact DEF Base, StartPhases, StartCompare
  <2> QED
    BY <1>1, <2>1, StayOK, StartKept
<1>3. CASE ~IsNeedRestartCore(starting.config, starting.base)
  <2>1. starting'.pc = "skip" /\ starting'.config = starting.config
    BY <1>3, StayFact DEF Base, StartPhases, StartCompare
  <2>2. inboundHashes = starting.config
    BY <1>3, SameHashes DEF Base
  <2> QED
    BY <1>1, <2>1, <2>2, StayOK, StartKept
<1> QED
  BY <1>2, <1>3

\* A start that is over is right.
LEMMA IdleOK ==
  ASSUME starting' = NoStart
  PROVE  StartOK'
  BY NoStartFact DEF StartOK

\* So does a start without a restart.
LEMMA StartSkipUser ==
  ASSUME Base, UserInv, StartSkip, calm'
  PROVE  UserInv'
<1>1. /\ starting.pc = "skip" /\ starting' = NoStart /\ inboundHashes' = starting.config
      /\ UNCHANGED <<calm, pc, job, panel, core, alive, faultless>>
  BY DEF StartSkip, ExtractUsersFromConfig, coreState, history
<1>2. inboundHashes = starting.config
  BY <1>1 DEF UserInv, CalmInv
<1> QED
  BY <1>1, <1>2, IdleOK, StartKept

\* A configuration of the versions of now counts every user with its UUID of now.
LEMMA UpToDateFact ==
  ASSUME StateInv, UpToDate, NEW u, NEW t
  PROVE  Of(u, At(starting.config, t)) \subseteq {Now(u)}
<1>1. starting.config \in Inbounds
  BY DEF StateInv
<1>2. ASSUME NEW x \in At(starting.config, t), x[1] = u PROVE x = Now(u)
  <2>1. t \in DOMAIN starting.config /\ x \in starting.config[t]
    BY <1>2 DEF At
  <2>2. x \in Uuids
    BY <1>1, <2>1, InboundsFact
  <2>3. x[2] = panel[x[1]]
    BY <2>1 DEF UpToDate
  <2> QED
    BY <1>2, <2>2, <2>3, UuidFact DEF Now
<1> QED
  BY <1>2 DEF Of

\* So does the stop before a restart.
LEMMA StartReplaceUser ==
  ASSUME Base, UserInv, StartReplace, calm'
  PROVE  UserInv'
<1>0. starting.pc = "replace" /\ UNCHANGED <<pc, job, panel>>
  BY DEF StartReplace
<1>1. CASE ExtractUsersFromConfig /\ NoCore /\ Stay("spawn") /\ calm' = (Quiet /\ UpToDate) /\ faultless' = TRUE
  <2>1. /\ Quiet /\ UpToDate /\ inboundHashes' = starting.config /\ alive' = FALSE
        /\ starting'.pc = "spawn" /\ starting'.config = starting.config
    BY <1>1, StayFact DEF ExtractUsersFromConfig, NoCore, Base, StartPhases
  <2>2. \A h \in Handlers : job[h].queue = <<>> /\ Named(h) = {}
    BY <2>1 DEF Base, PhaseInv, PhaseOK, Quiet, NoJob, Named
  <2>3. CalmInv'
    <3>1. Quiet' /\ UpToDate'
      BY <1>0, <2>1 DEF Quiet, UpToDate
    <3>2. \A h \in Handlers : Named(h)' = {} /\ job'[h].queue = <<>>
      BY <1>0, <2>2 DEF Named
    <3> QED
      BY <2>1, <3>1, <3>2 DEF CalmInv
  <2>4. RestInv'
    <3>1. \A u \in Users, t \in Tags : Of(u, At(inboundHashes', t)) \subseteq {<<u, panel'[u]>>}
      BY <1>0, <2>1, UpToDateFact DEF Base, Now
    <3> QED
      BY <2>1, <3>1 DEF RestInv, Counted, Sound, Agree, Now
  <2>5. WorkInv'
    BY <1>0, <2>1 DEF WorkInv, Quiet
  <2> QED
    BY <2>3, <2>4, <2>5 DEF UserInv
<1>2. CASE starting' = NoStart /\ UNCHANGED <<coreState, hashState, connected, calm, faultless>>
  BY <1>0, <1>2, IdleOK, StartKept DEF coreState, hashState
<1> QED
  BY <1>1, <1>2 DEF StartReplace

\* So does the new core, which has the users of the configuration.
LEMMA StartSpawnUser ==
  ASSUME Base, UserInv, StartSpawn, calm'
  PROVE  UserInv'
<1>0. starting.pc = "spawn" /\ UNCHANGED <<calm, pc, job, panel, inboundHashes, faultless>>
  BY DEF StartSpawn, hashState, history
<1>1. CASE Stay("await") /\ alive' = TRUE /\ core' = starting.config
  <2>1. starting'.pc = "await" /\ starting'.config = starting.config
    BY <1>1, StayFact DEF Base, StartPhases
  <2>2. Quiet /\ UpToDate /\ inboundHashes = starting.config
    BY <1>0 DEF UserInv, CalmInv
  <2>3. CalmInv'
    <3>1. StartOK'
      BY <1>0, <2>1, StayOK
    <3> QED
      BY <1>0, <3>1, RequestsKept
  <2>4. RestInv'
    <3>1. \A u \in Users, t \in Tags : Of(u, At(inboundHashes', t)) \subseteq {<<u, panel'[u]>>}
      BY <1>0, <2>2, UpToDateFact DEF Base, Now
    <3>2. core' = inboundHashes'
      BY <1>0, <1>1, <2>2
    <3> QED
      BY <3>1, <3>2 DEF RestInv, Counted, Served, Sound, Agree, Now
  <2>5. WorkInv'
    BY <1>0, <2>2 DEF WorkInv, Quiet
  <2> QED
    BY <2>3, <2>4, <2>5 DEF UserInv
<1>2. CASE starting' = NoStart /\ UNCHANGED <<alive, core>>
  BY <1>0, <1>2, IdleOK, StartKept
<1> QED
  BY <1>1, <1>2 DEF StartSpawn

\* So does its answer.
LEMMA StartAwaitUser ==
  ASSUME Base, UserInv, StartAwait, calm'
  PROVE  UserInv'
<1>1. starting' = NoStart /\ UNCHANGED <<calm, pc, job, panel, inboundHashes, faultless>>
  BY DEF StartAwait, hashState, history
<1>2. CASE UNCHANGED <<alive, core, connected>>
  BY <1>1, <1>2, IdleOK, StartKept
<1>3. CASE NoCore
  BY <1>1, <1>3, IdleOK, DeadKept, NoCoreFact DEF Base, StateInv
<1> QED
  BY <1>2, <1>3 DEF StartAwait

\* So does a stop, which forgets everybody.
LEMMA StopUser ==
  ASSUME Base, UserInv, Stop, calm'
  PROVE  UserInv'
<1>1. /\ starting.pc = "idle" /\ alive' = FALSE /\ inboundHashes' = NoInbounds
      /\ UNCHANGED <<calm, starting, pc, job, panel, faultless>>
  BY DEF Stop, NoCore, history
<1>2. \A u \in Users, t \in Tags : Of(u, At(inboundHashes', t)) \subseteq Of(u, At(inboundHashes, t))
  BY <1>1, NoInboundsFact DEF Of
<1>3. StartOK'
  BY <1>1 DEF StartOK
<1> QED
  BY <1>1, <1>2, <1>3, DeadKept DEF Base, StateInv

\* Steps that touch neither users nor core keep it.
LEMMA SameUser ==
  ASSUME Base, UserInv, calm',
         UNCHANGED <<starting, calm, pc, job, panel, inboundHashes, core, alive, faultless>>
  PROVE  UserInv'
<1>1. StartOK'
  BY StartNow DEF StartOK, Quiet, UpToDate
<1> QED
  BY <1>1, StartKept

\* So does the exit of the core: what is counted is compared only with a core that lives.
LEMMA CoreExitUser ==
  ASSUME Base, UserInv, CoreExit, calm'
  PROVE  UserInv'
<1>1. alive' = FALSE /\ UNCHANGED <<calm, starting, pc, job, panel, inboundHashes, faultless>>
  BY DEF CoreExit, hashState, history
<1>2. StartOK'
  BY <1>1, StartNow DEF StartOK, Quiet, UpToDate
<1> QED
  BY <1>1, <1>2, DeadKept DEF Base, StateInv

\* The users stay in order.
LEMMA UserNext ==
  ASSUME Base, UserInv, [Next]_vars
  PROVE  UserInv'
<1>1. CASE ~calm'
  BY <1>1 DEF UserInv, CalmInv, RestInv, WorkInv
<1>2. CASE calm' /\ (UNCHANGED vars \/ HandleDropIPs \/ Health \/ Connect)
  <2>1. UNCHANGED <<starting, calm, pc, job, panel, inboundHashes, core, alive, faultless>>
    BY <1>2, Zenon DEF vars, HandleDropIPs, Health, Connect, manager, coreState, hashState, history
  <2> QED
    BY <1>2, <2>1, SameUser
<1>3. CASE calm' /\ \E h \in Handlers : HandlerStep(h)
  BY <1>3, HandlerUser
<1> QED
  BY <1>1, <1>2, <1>3, StartCallUser, StartPingUser, StartCompareUser, StartSkipUser,
     StartReplaceUser, StartSpawnUser, StartAwaitUser, StopUser, CoreExitUser DEF Next

-----------------------------------------------------------------------------
(* The connections of a user that comes back.                              *)

\* No step of a handler opens a connection or undoes a fault.
LEMMA HandlerLess ==
  ASSUME Base, NEW g \in Handlers, HandlerStep(g)
  PROVE  connected' \subseteq connected /\ alive' = alive /\ (calm' => calm) /\ (faultless' => faultless)
<1>1. CASE Calls(g)
  <2>1. PICK op, q, T, l : Request(op, q, T, l) /\ Call(g, op, q, T, l)
    BY <1>1, CallShape DEF Base
  <2>2. (calm' => calm) /\ UNCHANGED <<manager, connected, faultless>>
    BY <2>1, CallFact DEF Base
  <2> QED
    BY <2>2 DEF manager, coreState
<1>2. CASE ~Calls(g)
  <2>1. Frame(g)
    BY <1>2, StepFrame DEF Base
  <2> QED
    BY <2>1 DEF Frame
<1> QED
  BY <1>1, <1>2

\* The additions start after the connections are dropped, and with all inbounds to go
\* only there.
LEMMA BeginAdd ==
  ASSUME Base, NEW h \in Handlers, HandlerStep(h), pc'[h] = "add",
         job'[h].todo = Head(job'[h].queue).tags
  PROVE  DropIPs(h) /\ Item(h).tags # {}
<1>0. inboundTags \subseteq Tags
  BY DEF Base, StateInv
<1>1. CASE Calls(h)
  <2>1. PICK op, q, T, l : Request(op, q, T, l) /\ Call(h, op, q, T, l)
    BY <1>1, CallShape DEF Base
  <2>2. pc'[h] = l /\ l \in {"tag", "check", "collect"}
    BY <2>1, CallFact DEF Base, Request
  <2> QED
    BY <2>2
<1>2. CASE AddInboundTag(h)
  BY <1>2, TagMove DEF Base, Moved
<1>3. CASE RemoveCheck(h) \/ InboundTags(h)
  BY <1>0, <1>3, CheckMove, SnapshotMove DEF Base, Moved
<1>4. CASE CollectUserIPs(h)
  BY <1>4, CollectMove DEF Base, Moved
<1>5. CASE HandlerRemoveUser(h)
  BY <1>5, RemoveMove DEF HandlerRemoveUser, Base, Moved
<1>6. CASE RemoveUserFromInboundHash(h)
  BY <1>6, ForgetMove DEF Base, Moved
<1>7. CASE NextItem(h) /\ pc[h] # "idle"
  BY <1>7, OnwardFact DEF Onward
<1>8. CASE DropIPs(h)
  <2>1. pc[h] # "idle"
    BY <1>8 DEF DropIPs
  <2> QED
    BY <1>7, <1>8, <2>1, DropMove DEF Base
<1>9. CASE AddSingleUser(h)
  <2>1. pc[h] = "add" /\ PhaseOK("add", job[h])
    BY <1>9, WorkingJob DEF AddSingleUser, Base
  <2>2. PICK t \in job[h].todo :
          \/ job' = [job EXCEPT ![h].tag = t, ![h].todo = @ \ {t}] /\ Goto(h, "record")
          \/ NextItem(h)
          \/ Keep(h, "todo", job[h].todo \ {t}) /\ pc' = pc
    BY <1>9 DEF AddSingleUser
  <2>3. CASE NextItem(h)
    BY <1>7, <2>1, <2>3
  <2>4. CASE Keep(h, "todo", job[h].todo \ {t}) /\ pc' = pc
    <3>1. Moved(h, "add", job[h].queue, job[h].todo \ {t})
      BY <2>1, <2>4, AddMove DEF Base
    <3>2. job[h].todo \subseteq Head(job[h].queue).tags
      BY <2>1 DEF PhaseOK
    <3> QED
      BY <3>1, <3>2 DEF Moved
  <2>5. CASE job' = [job EXCEPT ![h].tag = t, ![h].todo = @ \ {t}] /\ Goto(h, "record")
    BY <2>1, <2>5, AddMove DEF Base, Moved
  <2> QED
    BY <2>2, <2>3, <2>4, <2>5
<1>10. CASE AddUserToInboundHash(h)
  <2>1. pc[h] = "record" /\ PhaseOK("record", job[h])
    BY <1>10, WorkingJob DEF AddUserToInboundHash, Base
  <2>2. CASE NextItem(h)
    BY <1>7, <2>1, <2>2
  <2>3. CASE Moved(h, "add", job[h].queue, job[h].todo)
    BY <2>1, <2>3 DEF Moved, PhaseOK
  <2> QED
    BY <1>10, <2>2, <2>3, RecordMove DEF Base
<1> QED
  BY <1>1, <1>2, <1>3, <1>4, <1>5, <1>6, <1>8, <1>9, <1>10 DEF HandlerStep, Calls

\* The collected addresses lose their connections, unless a kill fails.
LEMMA DropGone ==
  ASSUME Base, NEW h \in Handlers, DropIPs(h), Item(h).tags # {}, faultless'
  PROVE  /\ job'[h].ips = job[h].ips /\ job'[h].queue = job[h].queue
         /\ \A u, a : a \in job[h].ips \ Whitelisted => <<u, a>> \notin connected'
<1>1. Item(h).tags \in SUBSET Tags
  BY ItemFact DEF Base, DropIPs
<1>2. JobStep(h, [job[h] EXCEPT !.todo = Item(h).tags])
  BY <1>1, KeepTodo DEF Base, DropIPs
<1>3. job[h] \in Jobs
  BY WorkingJob DEF Base
<1>4. job'[h].ips = job[h].ips /\ job'[h].queue = job[h].queue
  BY <1>2, <1>3 DEF JobStep, Jobs
<1>5. connected' = connected \ {c \in connected : c[2] \in job[h].ips \ Whitelisted}
  BY FaultFact DEF DropIPs, Base
<1> QED
  BY <1>4, <1>5

\* The user at whose addition a handler begins is served by no inbound.
LEMMA ReplacingFact ==
  ASSUME Base, UserInv, NEW h \in Handlers, Replacing(h), NEW t \in DOMAIN core
  PROVE  Of(Item(h).user, core[t]) = {}
<1>1. t \in Tags /\ At(core, t) = core[t]
  BY InboundsFact DEF Base, StateInv, At
<1>2. WorkOK(h, t) /\ pc[h] = "add" /\ job[h].todo = Item(h).tags /\ alive /\ faultless
  BY <1>1 DEF Replacing, UserInv, WorkInv
<1>3. Of(Item(h).user, At(core, t)) = {}
  BY <1>2 DEF WorkOK, Work, Agree, Item, Served
<1> QED
  BY <1>1, <1>3

\* The collected addresses stay disconnected until the user is added again.
LEMMA GoneNext ==
  ASSUME Base, UserInv, CollectedAreGone, [Next]_vars
  PROVE  CollectedAreGone'
<1>1. ASSUME UNCHANGED <<pc, job>>, connected' \subseteq connected,
             alive' /\ calm' /\ faultless' => Quiet \/ (alive /\ calm /\ faultless)
      PROVE  CollectedAreGone'
  <2>1. ASSUME NEW h \in Handlers, Replacing(h)', NEW a \in job'[h].ips \ Whitelisted
        PROVE  <<Item(h).user, a>> \notin connected'
    <3>1. Replacing(h)
      BY <1>1, <2>1 DEF Replacing, Quiet, Item
    <3> QED
      BY <1>1, <2>1, <3>1 DEF CollectedAreGone
  <2> QED
    BY <1>1, <2>1 DEF CollectedAreGone, Item
<1>2. CASE \E g \in Handlers : HandlerStep(g)
  <2>1. PICK g \in Handlers : HandlerStep(g)
    BY <1>2
  <2>2. Landed(g)
    BY <2>1, StepLands DEF Base
  <2>3. ASSUME NEW h \in Handlers, Replacing(h)', NEW a \in job'[h].ips \ Whitelisted
        PROVE  <<Head(job'[h].queue).user, a>> \notin connected'
    <3>1. CASE h # g
      <4>1. pc'[h] = pc[h] /\ job'[h] = job[h]
        BY <2>2, <3>1 DEF Landed
      <4>2. Replacing(h) /\ connected' \subseteq connected
        BY <2>1, <2>3, <4>1, HandlerLess DEF Replacing, Item
      <4> QED
        BY <2>3, <4>1, <4>2 DEF CollectedAreGone, Item
    <3>2. CASE h = g
      <4>1. pc'[h] = "add" /\ job'[h].todo = Head(job'[h].queue).tags /\ faultless'
        BY <2>3 DEF Replacing, Item
      <4>2. DropIPs(h) /\ Item(h).tags # {}
        BY <2>1, <3>2, <4>1, BeginAdd
      <4> QED
        BY <2>3, <4>1, <4>2, DropGone
    <3> QED
      BY <3>1, <3>2
  <2> QED
    BY <2>3 DEF CollectedAreGone, Item
<1>3. CASE Connect
  <2>1. PICK u \in Users, b \in Addrs : /\ \E t \in DOMAIN core : Of(u, core[t]) # {}
                                        /\ connected' = connected \cup {<<u, b>>}
    BY <1>3 DEF Connect
  <2>2. UNCHANGED <<pc, job, alive, calm, faultless>>
    BY <1>3 DEF Connect, manager, coreState, history
  <2>3. ASSUME NEW h \in Handlers, Replacing(h)', NEW a \in job'[h].ips \ Whitelisted
        PROVE  <<Item(h).user, a>> \notin connected'
    <3>1. Replacing(h)
      BY <2>2, <2>3 DEF Replacing, Item
    <3>2. u # Item(h).user
      BY <2>1, <3>1, ReplacingFact
    <3> QED
      BY <2>1, <2>2, <2>3, <3>1, <3>2 DEF CollectedAreGone
  <2> QED
    BY <2>2, <2>3 DEF CollectedAreGone, Item
<1>4. CASE StartCall
  BY <1>1, <1>4 DEF StartCall, coreState
<1>5. CASE StartPing \/ StartCompare \/ StartSkip \/ Health \/ HandleDropIPs \/ UNCHANGED vars
  <2>1. UNCHANGED <<pc, job, alive, calm, faultless>> /\ connected' \subseteq connected
    BY <1>5 DEF StartPing, StartCompare, StartSkip, Health, HandleDropIPs, vars, manager, coreState, history
  <2> QED
    BY <1>1, <2>1
<1>6. CASE StartReplace \/ Stop \/ CoreExit
  <2>1. UNCHANGED <<pc, job>> /\ connected' \subseteq connected
        /\ (alive' = FALSE \/ UNCHANGED <<alive, calm, faultless>>)
    BY <1>6 DEF StartReplace, Stop, CoreExit, NoCore, coreState
  <2> QED
    BY <1>1, <2>1
<1>7. CASE StartSpawn
  <2>1. UNCHANGED <<pc, job, calm, connected>> /\ starting.pc = "spawn"
    BY <1>7 DEF StartSpawn, history
  <2>2. calm => Quiet
    BY <2>1 DEF UserInv, CalmInv
  <2> QED
    BY <1>1, <2>1, <2>2
<1>8. CASE StartAwait
  <2>1. /\ UNCHANGED <<pc, job, calm, faultless>> /\ connected' \subseteq connected
        /\ alive' = FALSE \/ alive' = alive
    BY <1>8 DEF StartAwait, NoCore, history
  <2> QED
    BY <1>1, <2>1
<1> QED
  BY <1>2, <1>3, <1>4, <1>5, <1>6, <1>7, <1>8 DEF Next

-----------------------------------------------------------------------------
(* The theorems.                                                           *)

UsersInv == Base /\ UserInv /\ CollectedAreGone

\* The invariant holds at the start.
LEMMA InitUsers ==
  ASSUME Init
  PROVE  UsersInv
<1>1. \A h \in Handlers : pc[h] = "idle" /\ job[h] = NoJob
  BY DEF Init
<1>2. NoJob \in Jobs /\ NoJob.queue = <<>>
  BY DEF NoJob, Jobs
<1>3. JobInv
  BY <1>2 DEF Init, JobInv, Phases
<1>4. PhaseInv
  BY <1>1 DEF PhaseInv, PhaseOK
<1>5. starting = NoStart /\ core = NoInbounds /\ inboundHashes = NoInbounds
  BY DEF Init
<1>6. StateInv
  BY <1>5, NoStartFact, NoInboundsFact, FirstVersion DEF Init, StateInv
<1>7. OneEachInv
  BY <1>5, NoStartFact, NoInboundsFact DEF OneEachInv
<1>8. CalmInv
  <2>1. \A h \in Handlers : Named(h) = {} /\ job[h].queue = <<>>
    BY <1>1, <1>2 DEF Named
  <2> QED
    BY <1>5, <2>1, NoStartFact DEF CalmInv
<1>9. RestInv
  <2>1. alive = FALSE
    BY DEF Init
  <2>2. \A u, t : Counted(u, t) = {}
    BY <1>5, NoInboundsFact DEF Counted, Of
  <2> QED
    BY <2>1, <2>2 DEF RestInv, Sound, Agree
<1>10. WorkInv
  BY <1>1 DEF WorkInv
<1>11. CollectedAreGone
  BY <1>1 DEF CollectedAreGone, Replacing
<1> QED
  BY <1>3, <1>4, <1>6, <1>7, <1>8, <1>9, <1>10, <1>11 DEF UsersInv, Base, UserInv

\* The inductive invariant: the jobs of the handlers, the state, and as long as it is calm
\* what is counted and served of every user, at rest and at every step of a handler.
THEOREM UsersInvariant == Spec => []UsersInv
<1>1. ASSUME UsersInv, [Next]_vars PROVE UsersInv'
  BY <1>1, JobNext, StateNext, UserNext, GoneNext DEF UsersInv, Base
<1> QED
  BY InitUsers, <1>1, PTL DEF Spec

\* The types; what is counted is always among the tags that the removals go through, and
\* no inbound of the core holds two UUIDs of a user, however the handlers, the starts and
\* the exits of the core interleave.
THEOREM UsersTypeCorrect == Spec => []TypeOK
<1>1. ASSUME UsersInv PROVE TypeOK
  <2>0. Base
    BY <1>1 DEF UsersInv
  <2>1. \A t \in DOMAIN core, u \in Users : Cardinality(Of(u, core[t])) <= 1
    <3> TAKE t \in DOMAIN core, u \in Users
    <3> DEFINE S == Of(u, core[t])
    <3>1. \A x, y \in S : x = y
      BY <2>0 DEF Base, OneEachInv, OneEach, Of
    <3> HIDE DEF S
    <3>2. CASE S = {}
      BY <3>2, FS_EmptySet DEF S
    <3>3. CASE S # {}
      <4>1. PICK x \in S : TRUE
        BY <3>3
      <4>2. S = {x}
        BY <3>1, <4>1
      <4>3. Cardinality(S) = 1
        BY <4>2, FS_Singleton
      <4> QED
        BY <4>3 DEF S
    <3> QED
      BY <3>2, <3>3
  <2>2. ASSUME NEW h \in Handlers
        PROVE  /\ pc[h] \in Phases /\ job[h].todo \subseteq Tags /\ job[h].ips \subseteq Addrs
               /\ \A i \in DOMAIN job[h].queue : job[h].queue[i] \in Items
    <3>1. job[h].queue \in Seq(Items)
      BY <2>0, WorkingJob DEF Base
    <3> QED
      BY <2>0, <3>1, WorkingJob DEF Base
  <2>3. starting.pc \in StartPhases /\ starting.config \in Inbounds
    BY <2>0 DEF Base, StateInv
  <2> QED
    BY <2>0, <2>1, <2>2, <2>3 DEF TypeOK, Base, StateInv, Phases, StartPhases
<1> QED
  BY UsersInvariant, <1>1, PTL

\* A user that no handler has is at rest.
LEMMA SettledFact ==
  ASSUME Base, NEW u \in Settled
  PROVE  u \in Users /\ Resting(u)
  BY ItemFact DEF Base, Settled, Resting

\* The hash state counts nobody the core does not serve, whatever calls to the core fail
\* or get lost.
THEOREM HashedIsServedHolds == Spec => []HashedIsServed
<1>1. ASSUME UsersInv PROVE HashedIsServed
  <2>1. ASSUME calm, alive, NEW t \in Tags, NEW u \in Settled
        PROVE  Of(u, At(inboundHashes, t)) \subseteq At(core, t)
    <3>1. Sound(u, t)
      BY <1>1, <2>1, SettledFact DEF UsersInv, UserInv, RestInv
    <3> QED
      BY <2>1, <3>1 DEF Sound, Agree, Counted, Served, Of
  <2> QED
    BY <2>1 DEF HashedIsServed
<1> QED
  BY UsersInvariant, <1>1, PTL

\* When no call failed either, the hash state and the core agree on every user whose
\* handlers are through.
THEOREM HashesAgreeHolds == Spec => []HashesAgree
<1>1. ASSUME UsersInv PROVE ServedIsHashed
  <2>1. ASSUME calm, faultless, alive, NEW t \in Tags, NEW u \in Settled
        PROVE  Of(u, At(core, t)) \subseteq At(inboundHashes, t)
    <3>1. Sound(u, t)
      BY <1>1, <2>1, SettledFact DEF UsersInv, UserInv, RestInv
    <3> QED
      BY <2>1, <3>1 DEF Sound, Agree, Counted, Served, Of
  <2> QED
    BY <2>1 DEF ServedIsHashed
<1>2. HashedIsServed /\ ServedIsHashed => HashesAgree
  BY DEF HashesAgree
<1> QED
  BY UsersInvariant, HashedIsServedHolds, <1>1, <1>2, PTL

\* A start that is answered without a restart finds in the core every user the Panel asked
\* for, and without faults nobody else.
THEOREM SkippedStartIsServedHolds == Spec => []SkippedStartIsServed
<1>1. ASSUME UsersInv PROVE SkippedStartIsServed
  <2>1. ASSUME starting.pc = "skip", calm, alive, NEW t \in Tags
        PROVE  /\ At(starting.config, t) \subseteq At(core, t)
               /\ faultless => At(core, t) \subseteq At(starting.config, t)
    <3>1. Quiet /\ inboundHashes = starting.config
      BY <1>1, <2>1 DEF UsersInv, UserInv, CalmInv
    <3>2. \A u \in Users : Sound(u, t)
      BY <1>1, <2>1, <3>1 DEF UsersInv, UserInv, RestInv, Resting, Quiet
    <3>3. core \in Inbounds /\ inboundHashes \in Inbounds
      BY <1>1 DEF UsersInv, Base, StateInv
    <3>4. ASSUME NEW x \in At(inboundHashes, t) PROVE x \in At(core, t)
      <4>1. x[1] \in Users
        BY <3>3, <3>4, InboundsFact, UuidFact
      <4>2. x \in Of(x[1], At(inboundHashes, t))
        BY <3>4 DEF Of
      <4> QED
        BY <2>1, <3>2, <4>1, <4>2 DEF Sound, Agree, Counted, Served, Of
    <3>5. ASSUME faultless, NEW x \in At(core, t) PROVE x \in At(inboundHashes, t)
      <4>1. x[1] \in Users
        BY <3>3, <3>5, InboundsFact, UuidFact
      <4>2. x \in Of(x[1], At(core, t))
        BY <3>5 DEF Of
      <4> QED
        BY <2>1, <3>2, <3>5, <4>1, <4>2 DEF Sound, Agree, Counted, Served, Of
    <3> QED
      BY <3>1, <3>4, <3>5
  <2> QED
    BY <2>1 DEF SkippedStartIsServed
<1> QED
  BY UsersInvariant, <1>1, PTL

\* When a user with a previous UUID is about to be added, the connections of the addresses
\* it was collected with are closed and none came back.
THEOREM CollectedAreGoneHolds == Spec => []CollectedAreGone
<1>1. UsersInv => CollectedAreGone
  BY DEF UsersInv
<1> QED
  BY UsersInvariant, <1>1, PTL
=============================================================================
