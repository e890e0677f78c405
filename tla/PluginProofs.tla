----------------------------- MODULE PluginProofs -----------------------------
(***************************************************************************)
(* The plugin service, proved for every set of handlers, payloads and      *)
(* filters: what the state stores is what the kernel has and what the      *)
(* running core was given.  Both need what the code relies on, that the    *)
(* Panel's syncs, clears and stops come one at a time (OneChanger); starts *)
(* and health polls run beside them in any number.                         *)
(***************************************************************************)
EXTENDS PluginSync, TLAPS

\* The operations that replace the stored plugin, or stop the core with it.
Changer(t) == Serves[t] \cap {"sync", "clear", "stop"} # {}
OneChanger == \A t, u \in Handlers : Changer(t) /\ Changer(u) => t = u

\* Where such an operation stands; where a start has raised its flag; and where the
\* lock is held.
Changing == {"was", "update", "now", "tables", "scripts", "discard", "restart", "remove",
             "reset", "reset.tables", "stop.decide", "stop.enter", "stop.kill", "stop.unlock"}
Starting == {"opt", "start.decide", "start.spawn", "start.await", "start.finish"}
Holding == Starting \cup {"stop.kill", "stop.unlock", "start.mark", "start.unlock"}

\* The locals of the operation a thread is in.
ThreadInv ==
  \A t \in Handlers :
    /\ pc[t] \in Changing => Changer(t)
    /\ pc[t] \notin Reading \cup {"scripts", "discard"} => index[t] = 1
    /\ pc[t] \in {"was", "update", "now", "tables", "scripts"} => payload[t] \in Plugins
    /\ pc[t] \in {"was", "update"} => op[t] = "sync"
    /\ pc[t] \in {"now", "tables"} => op[t] \in {"sync", "same"}

LockInv == \A t \in Handlers : pc[t] \in Holding => lifecycleMu = t
FlagInv == \A t \in Handlers : pc[t] \in Starting => startProcessing

\* Between the update and the last script the stored plugin is the sync's own.
StoredInv ==
  \A t \in Handlers :
    /\ pc[t] \in {"now", "tables", "scripts"} => plugin = payload[t]
    /\ pc[t] = "reset.tables" => plugin = None

\* What the first n scripts of a payload add.
Scripts(p, n) == UNION {Filters[p][i] : i \in 1..n}

\* The sets hold what the scripts so far have added, unless they were emptied since.
ScriptInv ==
  \A t \in Handlers : pc[t] = "scripts" =>
    /\ index[t] \in 1..(Len(Filters[payload[t]]) + 1)
    /\ recreated \/ filters = Scripts(payload[t], index[t] - 1)

\* The stored plugin is installed, or a sync will install it or give it up.
Installing(t) ==
  \/ pc[t] \in {"now", "tables"} /\ op[t] = "sync"
  \/ pc[t] \in {"scripts", "discard"}
InstallInv ==
  plugin # None /\ ~recreated
    => filters = Installed(plugin) \/ \E t \in Handlers : Installing(t)

\* What a sync has read of the torrent settings is that of the stored plugin.
Current == Settings(plugin)
HasRead(t, who) ==
  \A i \in 1..3 : i < index[t] => seen[t][who][Fields[i]] = Current[Fields[i]]
ReadInv ==
  \A t \in Handlers :
    /\ pc[t] = "was" => HasRead(t, "was")
    /\ pc[t] = "update" => seen[t]["was"] = Current
    /\ pc[t] = "now" => HasRead(t, "now")
    /\ pc[t] \in {"tables", "scripts", "restart"} => seen[t]["now"] = Current
    /\ pc[t] = "remove" => ~Current.enabled

\* Unless a changer is on its way to stop the core, the core has the current settings
\* and so will the one a start is about to spawn.
Replacing(t) ==
  \/ pc[t] \in {"now", "tables", "scripts", "restart"} /\ seen[t]["was"] # Current
  \/ pc[t] \in {"discard", "stop.decide", "stop.enter", "stop.kill"}
ServedInv ==
  Current.enabled /\ (\A t \in Handlers : ~Replacing(t)) =>
    /\ core \in {None, Current}
    /\ \A t \in Handlers :
         /\ pc[t] = "opt" => HasRead(t, "opt")
         /\ pc[t] \in {"start.decide", "start.spawn"} => seen[t]["opt"] = Current

-----------------------------------------------------------------------------
(* Lemmas about the operators.                                             *)

\* The three fields are the fields of the torrent settings.
LEMMA FieldsFact ==
  /\ DOMAIN Fields = 1..3 /\ Len(Fields) = 3
  /\ Fields[1] = "enabled" /\ Fields[2] = "tags" /\ Fields[3] = "placement"
  BY DEF Fields

\* Whatever is stored has torrent settings.
LEMMA SettingsType ==
  ASSUME NEW p \in Plugins \cup {None}
  PROVE  Settings(p) \in Torrents
<1>1. Off \in Torrents
  BY DEF Off, Torrents
<1>2. ASSUME p # None PROVE Blocker[p] \in Torrents
  BY <1>2, PluginsAssumption
<1> QED
  BY <1>1, <1>2 DEF Settings

\* Settings are their three fields.
LEMMA SameFields ==
  ASSUME NEW a \in Torrents, NEW b \in Torrents,
         a.enabled = b.enabled, a.tags = b.tags, a.placement = b.placement
  PROVE  a = b
  BY DEF Torrents

\* Settings that agree in what is read field by field are the same.
LEMMA SameSettings ==
  ASSUME NEW a \in Torrents, NEW b \in Torrents,
         \A i \in 1..3 : a[Fields[i]] = b[Fields[i]]
  PROVE  a = b
<1>1. a.enabled = b.enabled /\ a.tags = b.tags /\ a.placement = b.placement
  BY FieldsFact
<1> QED
  BY <1>1, SameFields

\* Settings that differ, the second of them enabled, need a new core.
LEMMA DifferentSettings ==
  ASSUME NEW a \in Torrents, NEW b \in Torrents, a # b, b.enabled
  PROVE  NeedsRestart(a, b)
<1>1. a.enabled # b.enabled \/ a.tags # b.tags \/ a.placement # b.placement
  BY SameFields
<1>2. a.enabled \in BOOLEAN /\ b.enabled \in BOOLEAN
  BY DEF Torrents
<1> QED
  BY <1>1, <1>2 DEF NeedsRestart

\* One step of reading: one field becomes current, the others stay.
LEMMA ReadShape ==
  ASSUME TypeOK, NEW t \in Handlers, ReadTorrent(t)
  PROVE  /\ pc[t] \in Reading /\ index[t] \in 1..3
         /\ seen' \in [Handlers -> [Reading -> Torrents]]
         /\ \A u \in Handlers : u # t => seen'[u] = seen[u]
         /\ \A who \in Reading : who # pc[t] => seen'[t][who] = seen[t][who]
         /\ \A i \in 1..3 : i # index[t]
              => seen'[t][pc[t]][Fields[i]] = seen[t][pc[t]][Fields[i]]
         /\ seen'[t][pc[t]][Fields[index[t]]] = Current[Fields[index[t]]]
<1> DEFINE who == pc[t]
           f == Fields[index[t]]
<1>1. who \in Reading /\ index[t] \in 1..3
  BY FieldsFact DEF TypeOK, ReadTorrent
<1>2. Current \in Torrents /\ seen[t][who] \in Torrents
  BY <1>1, SettingsType DEF TypeOK, Current
<1>3. seen' = [seen EXCEPT ![t] = [seen[t] EXCEPT ![who] =
                 [seen[t][who] EXCEPT ![f] = Current[f]]]]
  BY DEF ReadTorrent, TypeOK, Current
<1> DEFINE new == [seen[t][who] EXCEPT ![f] = Current[f]]
<1>4. new \in Torrents
  <2>1. CASE index[t] = 1
    BY <1>2, <2>1, FieldsFact DEF Torrents
  <2>2. CASE index[t] = 2
    BY <1>2, <2>2, FieldsFact DEF Torrents
  <2>3. CASE index[t] = 3
    BY <1>2, <2>3, FieldsFact DEF Torrents
  <2> QED
    BY <1>1, <2>1, <2>2, <2>3
<1>5. /\ new[f] = Current[f]
      /\ \A i \in 1..3 : i # index[t] => new[Fields[i]] = seen[t][who][Fields[i]]
  <2>1. DOMAIN seen[t][who] = {"enabled", "tags", "placement"}
    BY <1>2 DEF Torrents
  <2>2. f \in {"enabled", "tags", "placement"}
    BY <1>1, FieldsFact
  <2>3. \A i \in 1..3 : /\ Fields[i] \in {"enabled", "tags", "placement"}
                        /\ i # index[t] => Fields[i] # f
    BY <1>1, FieldsFact
  <2> QED
    BY <2>1, <2>2, <2>3
<1> HIDE DEF new
<1>6. seen' \in [Handlers -> [Reading -> Torrents]]
  BY <1>1, <1>3, <1>4 DEF TypeOK, new
<1>7. seen'[t] = [seen[t] EXCEPT ![who] = new]
  BY <1>3 DEF TypeOK, new
<1>8. seen'[t][who] = new /\ \A w \in Reading : w # who => seen'[t][w] = seen[t][w]
  BY <1>1, <1>7 DEF TypeOK
<1>9. \A u \in Handlers : u # t => seen'[u] = seen[u]
  BY <1>3 DEF TypeOK
<1> QED
  BY <1>1, <1>5, <1>6, <1>8, <1>9

\* A reader has one of three tasks and three fields.
LEMMA ReadCases ==
  ASSUME TypeOK, NEW t \in Handlers, ReadTorrent(t)
  PROVE  pc[t] \in {"was", "now", "opt"} /\ (index[t] < 3 \/ index[t] = 3)
<1>1. pc[t] \in Reading /\ index[t] \in 1..3
  BY ReadShape
<1> QED
  BY <1>1 DEF Reading

\* Where a reader continues.
LEMMA ReadNext ==
  ASSUME TypeOK, NEW t \in Handlers, ReadTorrent(t)
  PROVE  /\ \/ index[t] < 3 /\ index' = [index EXCEPT ![t] = index[t] + 1] /\ pc' = pc
            \/ /\ index[t] = 3 /\ index' = [index EXCEPT ![t] = 1]
               /\ pc' = [pc EXCEPT ![t] = IF pc[t] = "was" THEN "update"
                                          ELSE IF pc[t] = "now" THEN "tables"
                                          ELSE "start.decide"]
         /\ UNCHANGED <<plugin, kernel, manager, op, payload>>
<1>1. pc[t] \in Reading /\ index[t] \in 1..3
  BY ReadShape
<1>2. AfterReading(pc[t]) = IF pc[t] = "was" THEN "update"
                            ELSE IF pc[t] = "now" THEN "tables" ELSE "start.decide"
  BY <1>1 DEF AfterReading, Reading
<1> QED
  BY <1>1, <1>2, FieldsFact DEF ReadTorrent, Goto

\* The blank locals and the settings that a start applies are well typed.
LEMMA BlankType ==
  /\ Off \in Torrents /\ Blank \in [Reading -> Torrents]
  /\ \A o \in Torrents : Configured(o) \in Torrents
<1>1. Off \in Torrents
  BY DEF Off, Torrents
<1> QED
  BY <1>1 DEF Blank, Configured

\* A handler that has answered leaves well-typed locals.
LEMMA ReturnType ==
  ASSUME TypeOK, NEW t \in Handlers, Return(t)
  PROVE  /\ pc' \in [Handlers -> Labels]
         /\ op' \in [Handlers -> {"none", "sync", "same", "clear", "invalid", "stop"}]
         /\ payload' \in [Handlers -> Plugins \cup {None}]
         /\ seen' \in [Handlers -> [Reading -> Torrents]]
         /\ index' \in [Handlers -> Nat]
         /\ \A u \in Handlers : pc'[u] \in Reading => index'[u] \in 1..3
<1>1. "idle" \in Labels /\ "idle" \notin Reading
  BY DEF Labels, Reading
<1>2. \A u \in Handlers : pc'[u] \in Reading => u # t /\ pc'[u] = pc[u] /\ index'[u] = index[u]
  BY <1>1 DEF Return, Goto, TypeOK
<1> QED
  BY <1>1, <1>2, BlankType, FieldsFact DEF Return, Goto, TypeOK

\* A thread that goes on to a label where nothing is read keeps the types of the labels.
LEMMA MoveType ==
  ASSUME TypeOK, NEW t \in Handlers, NEW label \in Labels \ Reading,
         pc' = [pc EXCEPT ![t] = label],
         \A u \in Handlers : u # t => index'[u] = index[u]
  PROVE  /\ pc' \in [Handlers -> Labels]
         /\ \A u \in Handlers : pc'[u] \in Reading => index'[u] \in DOMAIN Fields
<1>1. pc' \in [Handlers -> Labels]
  BY DEF TypeOK
<1>2. \A u \in Handlers : pc'[u] \in Reading => u # t /\ pc'[u] = pc[u]
  BY DEF TypeOK
<1> QED
  BY <1>1, <1>2 DEF TypeOK

\* The scripts of a payload add elements only.
LEMMA ScriptType ==
  ASSUME NEW p \in Plugins, NEW i \in DOMAIN Filters[p]
  PROVE  Filters[p][i] \subseteq Elements
  BY PluginsAssumption

\* The scripts of a payload are counted from one.
LEMMA ScriptCount ==
  ASSUME NEW p \in Plugins
  PROVE  Len(Filters[p]) \in Nat /\ DOMAIN Filters[p] = 1..Len(Filters[p])
<1>1. Filters[p] \in Seq(SUBSET Elements)
  BY PluginsAssumption
<1> QED
  BY <1>1

\* One script more, and all of them.
LEMMA ScriptsFact ==
  ASSUME NEW p \in Plugins
  PROVE  /\ Scripts(p, 0) = {}
         /\ \A n \in Nat : Scripts(p, n + 1) = Scripts(p, n) \cup Filters[p][n + 1]
         /\ Scripts(p, Len(Filters[p])) = Installed(p)
<1>1. Scripts(p, 0) = {}
  BY DEF Scripts
<1>2. ASSUME NEW n \in Nat PROVE Scripts(p, n + 1) = Scripts(p, n) \cup Filters[p][n + 1]
  <2>1. 1..(n + 1) = (1..n) \cup {n + 1}
    OBVIOUS
  <2> QED
    BY <2>1 DEF Scripts
<1>3. Scripts(p, Len(Filters[p])) = Installed(p)
  BY ScriptCount, NoneAssumption DEF Scripts, Installed
<1> QED
  BY <1>1, <1>2, <1>3

\* When the last field is read, all of them are the current ones.
LEMMA AllRead ==
  ASSUME TypeOK, NEW t \in Handlers, ReadTorrent(t), HasRead(t, pc[t])
  PROVE  /\ index[t] = 3 => seen'[t][pc[t]] = Current
         /\ \A i \in 1..3 : i < index[t] + 1
              => seen'[t][pc[t]][Fields[i]] = Current[Fields[i]]
<1>1. \A i \in 1..3 : i < index[t] + 1 => seen'[t][pc[t]][Fields[i]] = Current[Fields[i]]
  BY ReadShape DEF HasRead
<1>2. ASSUME index[t] = 3 PROVE seen'[t][pc[t]] = Current
  <2>1. seen'[t][pc[t]] \in Torrents /\ Current \in Torrents
    BY ReadShape, SettingsType DEF TypeOK, Current
  <2>2. \A i \in 1..3 : seen'[t][pc[t]][Fields[i]] = Current[Fields[i]]
    BY <1>1, <1>2
  <2> QED
    BY <2>1, <2>2, SameSettings
<1> QED
  BY <1>1, <1>2

-----------------------------------------------------------------------------
(* Each part is kept by every step.                                        *)

\* Every step keeps the types; a reader begins with the first field.
LEMMA TypeNext ==
  ASSUME TypeOK, ThreadInv, [Next]_vars
  PROVE  TypeOK'
<1> USE NoneAssumption
<1>1. ASSUME NEW t \in Handlers, ReadTorrent(t) PROVE TypeOK'
  <2>1. seen' \in [Handlers -> [Reading -> Torrents]]
    BY <1>1, ReadShape
  <2>2. CASE index[t] < 3
    <3>1. pc' = pc /\ index' = [index EXCEPT ![t] = index[t] + 1]
      BY <1>1, <2>2, ReadNext
    <3>2. index[t] \in 1..3 /\ UNCHANGED <<plugin, kernel, manager, op, payload>>
      BY <1>1, ReadNext, ReadShape
    <3> QED
      BY <2>1, <2>2, <3>1, <3>2, FieldsFact DEF TypeOK, kernel, manager
  <2>3. CASE index[t] = 3
    <3>1. \E label \in Labels \ Reading : pc' = [pc EXCEPT ![t] = label]
      BY <1>1, <2>3, ReadNext DEF Labels, Reading
    <3>2. index' = [index EXCEPT ![t] = 1]
      BY <1>1, <2>3, ReadNext
    <3>3. UNCHANGED <<plugin, kernel, manager, op, payload>>
      BY <1>1, ReadNext
    <3> QED
      BY <2>1, <3>1, <3>2, <3>3, FieldsFact DEF TypeOK, kernel, manager
  <2> QED
    BY <1>1, <2>2, <2>3, ReadShape
<1>2. ASSUME NEW t \in Handlers, NEW p \in Plugins, SyncCall(t, p) PROVE TypeOK'
  <2>1. pc' \in [Handlers -> Labels]
    BY <1>2 DEF SyncCall, TypeOK, Labels, Reading, Goto
  <2>2. /\ op' \in [Handlers -> {"none", "sync", "same", "clear", "invalid", "stop"}]
        /\ payload' \in [Handlers -> Plugins \cup {None}]
    BY <1>2 DEF SyncCall, TypeOK
  <2>3. UNCHANGED <<plugin, kernel, manager, seen, index>>
    BY <1>2 DEF SyncCall
  <2>4. \A u \in Handlers : pc'[u] \in Reading => index[u] \in 1..3
    <3>1. index[t] = 1
      BY <1>2 DEF SyncCall, ThreadInv, Reading
    <3> QED
      BY <1>2, <3>1, FieldsFact DEF SyncCall, TypeOK, Goto
  <2> QED
    BY <2>1, <2>2, <2>3, <2>4, FieldsFact DEF TypeOK, kernel, manager
<1>3. ASSUME NEW t \in Handlers, SyncUpdate(t) PROVE TypeOK'
  <2>1. /\ plugin' \in Plugins \cup {None}
        /\ op' \in [Handlers -> {"none", "sync", "same", "clear", "invalid", "stop"}]
    BY <1>3 DEF SyncUpdate, TypeOK
  <2>2. pc' = [pc EXCEPT ![t] = "now"] /\ index[t] = 1 /\ "now" \in Labels
    BY <1>3 DEF SyncUpdate, Goto, ThreadInv, Labels, Reading
  <2>3. UNCHANGED <<kernel, manager, payload, seen, index>>
    BY <1>3 DEF SyncUpdate
  <2> QED
    BY <2>1, <2>2, <2>3, FieldsFact DEF TypeOK, kernel, manager
<1>4. ASSUME NEW t \in Handlers, SyncTables(t) PROVE TypeOK'
  <2>1. \E label \in Labels \ Reading : pc' = [pc EXCEPT ![t] = label]
    BY <1>4 DEF SyncTables, Goto, Labels, Reading
  <2>2. /\ pc' \in [Handlers -> Labels]
        /\ \A u \in Handlers : pc'[u] \in Reading => index'[u] \in DOMAIN Fields
    <3>1. index' = index
      BY <1>4 DEF SyncTables, locals
    <3> QED
      BY <2>1, <3>1, MoveType
  <2>3. filters' \subseteq Elements
    BY <1>4 DEF SyncTables, TypeOK, kernel
  <2>4. recreated' \in BOOLEAN
    BY <1>4 DEF SyncTables, TypeOK, kernel
  <2>5. UNCHANGED <<plugin, manager, locals>>
    BY <1>4 DEF SyncTables
  <2> QED
    BY <2>2, <2>3, <2>4, <2>5 DEF TypeOK, kernel, manager, locals
<1>5. ASSUME NEW t \in Handlers, SyncScript(t) PROVE TypeOK'
  <2>1. pc' = pc \/ \E label \in Labels \ Reading : pc' = [pc EXCEPT ![t] = label]
    BY <1>5 DEF SyncScript, Goto, Labels, Reading
  <2>2. filters' \subseteq Elements
    <3>1. payload[t] \in Plugins
      BY <1>5 DEF SyncScript, ThreadInv
    <3> QED
      BY <1>5, <3>1, ScriptType DEF SyncScript, TypeOK
  <2>3. index' \in [Handlers -> Nat] /\ \A u \in Handlers : u # t => index'[u] = index[u]
    BY <1>5 DEF SyncScript, TypeOK
  <2>4. /\ pc' \in [Handlers -> Labels]
        /\ \A u \in Handlers : pc'[u] \in Reading => index'[u] \in DOMAIN Fields
    <3>1. CASE pc' = pc
      <4>1. pc[t] \notin Reading
        BY <1>5 DEF SyncScript, Reading
      <4> QED
        BY <2>3, <3>1, <4>1 DEF TypeOK
    <3> QED
      BY <2>1, <2>3, <3>1, MoveType
  <2>5. UNCHANGED <<plugin, recreated, manager, op, payload, seen>>
    BY <1>5 DEF SyncScript
  <2> QED
    BY <2>2, <2>3, <2>4, <2>5 DEF TypeOK, manager
<1>6. ASSUME NEW t \in Handlers, SyncDiscard(t) PROVE TypeOK'
  <2>1. Return(t) /\ plugin' = None /\ UNCHANGED <<kernel, manager>>
    BY <1>6 DEF SyncDiscard
  <2> QED
    BY <2>1, ReturnType, FieldsFact DEF TypeOK, kernel, manager
<1>7. ASSUME NEW t \in Handlers, SyncRestart(t) PROVE TypeOK'
  <2>1. UNCHANGED <<plugin, kernel, manager>>
    BY <1>7 DEF SyncRestart, kernel, manager
  <2>2. CASE Return(t)
    BY <2>1, <2>2, ReturnType, FieldsFact DEF TypeOK, kernel, manager
  <2>3. CASE ~Return(t)
    <3>1. \E label \in Labels \ Reading : pc' = [pc EXCEPT ![t] = label]
      BY <1>7, <2>3 DEF SyncRestart, Labels, Reading, Goto
    <3>2. UNCHANGED locals
      BY <1>7, <2>3 DEF SyncRestart
    <3>3. /\ pc' \in [Handlers -> Labels]
          /\ \A u \in Handlers : pc'[u] \in Reading => index'[u] \in DOMAIN Fields
      BY <3>1, <3>2, MoveType DEF locals
    <3> QED
      BY <2>1, <3>2, <3>3 DEF TypeOK, kernel, manager, locals
  <2> QED
    BY <2>2, <2>3
<1>8. ASSUME NEW t \in Handlers, SyncRemove(t) PROVE TypeOK'
  <2>1. Return(t) /\ core' = Off
    BY <1>8 DEF SyncRemove
  <2>2. UNCHANGED <<plugin, kernel, lifecycleMu, startProcessing, xrayOnline>>
    BY <1>8 DEF SyncRemove
  <2> QED
    BY <2>1, <2>2, ReturnType, BlankType, FieldsFact DEF TypeOK, kernel
<1>9. ASSUME NEW t \in Handlers, SyncRemoveFailed(t) PROVE TypeOK'
  <2>1. core' \in Torrents \cup {None}
    BY <1>9, BlankType DEF SyncRemoveFailed, TypeOK
  <2>2. pc' = [pc EXCEPT ![t] = "stop.decide"] /\ "stop.decide" \in Labels \ Reading
    BY <1>9 DEF SyncRemoveFailed, Goto, Labels, Reading
  <2>3. UNCHANGED <<plugin, kernel, lifecycleMu, startProcessing, xrayOnline, locals>>
    BY <1>9 DEF SyncRemoveFailed
  <2> QED
    BY <2>1, <2>2, <2>3 DEF TypeOK, kernel, locals
<1>10. ASSUME NEW t \in Handlers, ClearCall(t) PROVE TypeOK'
  <2>1. \E label \in Labels \ Reading : pc' = [pc EXCEPT ![t] = label]
    BY <1>10 DEF ClearCall, Goto, Labels, Reading
  <2>2. /\ pc' \in [Handlers -> Labels]
        /\ \A u \in Handlers : pc'[u] \in Reading => index'[u] \in DOMAIN Fields
    <3>1. index' = index
      BY <1>10 DEF ClearCall, locals
    <3> QED
      BY <2>1, <3>1, MoveType
  <2>3. op' \in [Handlers -> {"none", "sync", "same", "clear", "invalid", "stop"}]
    BY <1>10 DEF ClearCall, TypeOK, kernel
  <2>4. UNCHANGED <<plugin, kernel, manager, payload, seen, index>>
    BY <1>10 DEF ClearCall
  <2> QED
    BY <2>2, <2>3, <2>4 DEF TypeOK, kernel, manager, locals
<1>11. ASSUME NEW t \in Handlers, StopCall(t) PROVE TypeOK'
  <2>1. \E label \in Labels \ Reading : pc' = [pc EXCEPT ![t] = label]
    BY <1>11 DEF StopCall, Goto, Labels, Reading
  <2>2. /\ pc' \in [Handlers -> Labels]
        /\ \A u \in Handlers : pc'[u] \in Reading => index'[u] \in DOMAIN Fields
    <3>1. index' = index
      BY <1>11 DEF StopCall, locals
    <3> QED
      BY <2>1, <3>1, MoveType
  <2>3. op' \in [Handlers -> {"none", "sync", "same", "clear", "invalid", "stop"}]
    BY <1>11 DEF StopCall, TypeOK, kernel
  <2>4. UNCHANGED <<plugin, kernel, manager, payload, seen, index>>
    BY <1>11 DEF StopCall
  <2> QED
    BY <2>2, <2>3, <2>4 DEF TypeOK, kernel, manager, locals
<1>12. ASSUME NEW t \in Handlers, ResetState(t) PROVE TypeOK'
  <2>1. \E label \in Labels \ Reading : pc' = [pc EXCEPT ![t] = label]
    BY <1>12 DEF ResetState, Goto, Labels, Reading
  <2>2. /\ pc' \in [Handlers -> Labels]
        /\ \A u \in Handlers : pc'[u] \in Reading => index'[u] \in DOMAIN Fields
    <3>1. index' = index
      BY <1>12 DEF ResetState, locals
    <3> QED
      BY <2>1, <3>1, MoveType
  <2>3. plugin' = None
    BY <1>12 DEF ResetState, TypeOK, kernel
  <2>4. UNCHANGED <<kernel, manager, locals>>
    BY <1>12 DEF ResetState
  <2> QED
    BY <2>2, <2>3, <2>4 DEF TypeOK, kernel, manager, locals
<1>13. ASSUME NEW t \in Handlers, ResetTables(t) PROVE TypeOK'
  <2>1. \E label \in Labels \ Reading : pc' = [pc EXCEPT ![t] = label]
    BY <1>13 DEF ResetTables, Goto, Labels, Reading
  <2>2. /\ pc' \in [Handlers -> Labels]
        /\ \A u \in Handlers : pc'[u] \in Reading => index'[u] \in DOMAIN Fields
    <3>1. index' = index
      BY <1>13 DEF ResetTables, locals
    <3> QED
      BY <2>1, <3>1, MoveType
  <2>3. filters' \subseteq Elements
    BY <1>13 DEF ResetTables, TypeOK, kernel
  <2>4. recreated' \in BOOLEAN
    BY <1>13 DEF ResetTables, TypeOK, kernel
  <2>5. UNCHANGED <<plugin, manager, locals>>
    BY <1>13 DEF ResetTables
  <2> QED
    BY <2>2, <2>3, <2>4, <2>5 DEF TypeOK, kernel, manager, locals
<1>14. ASSUME NEW t \in Handlers, ResetTablesFailed(t) PROVE TypeOK'
  <2>1. UNCHANGED <<plugin, kernel, manager>>
    BY <1>14 DEF ResetTablesFailed, kernel, manager
  <2>2. CASE Return(t)
    BY <2>1, <2>2, ReturnType, FieldsFact DEF TypeOK, kernel, manager
  <2>3. CASE ~Return(t)
    <3>1. \E label \in Labels \ Reading : pc' = [pc EXCEPT ![t] = label]
      BY <1>14, <2>3 DEF ResetTablesFailed, Labels, Reading, Goto
    <3>2. UNCHANGED locals
      BY <1>14, <2>3 DEF ResetTablesFailed
    <3>3. /\ pc' \in [Handlers -> Labels]
          /\ \A u \in Handlers : pc'[u] \in Reading => index'[u] \in DOMAIN Fields
      BY <3>1, <3>2, MoveType DEF locals
    <3> QED
      BY <2>1, <3>2, <3>3 DEF TypeOK, kernel, manager, locals
  <2> QED
    BY <2>2, <2>3
<1>15. ASSUME NEW t \in Handlers, RecreateTables(t) PROVE TypeOK'
  <2>1. filters' = {} /\ recreated' = TRUE /\ UNCHANGED <<plugin, manager, pc, locals>>
    BY <1>15 DEF RecreateTables
  <2> QED
    BY <2>1 DEF TypeOK, manager, locals
<1>16. ASSUME NEW t \in Handlers, StopDecide(t) PROVE TypeOK'
  <2>1. UNCHANGED <<plugin, kernel, manager>>
    BY <1>16 DEF StopDecide, kernel, manager
  <2>2. CASE Return(t)
    BY <2>1, <2>2, ReturnType, FieldsFact DEF TypeOK, kernel, manager
  <2>3. CASE ~Return(t)
    <3>1. \E label \in Labels \ Reading : pc' = [pc EXCEPT ![t] = label]
      BY <1>16, <2>3 DEF StopDecide, Labels, Reading, Goto
    <3>2. UNCHANGED locals
      BY <1>16, <2>3 DEF StopDecide
    <3>3. /\ pc' \in [Handlers -> Labels]
          /\ \A u \in Handlers : pc'[u] \in Reading => index'[u] \in DOMAIN Fields
      BY <3>1, <3>2, MoveType DEF locals
    <3> QED
      BY <2>1, <3>2, <3>3 DEF TypeOK, kernel, manager, locals
  <2> QED
    BY <2>2, <2>3
<1>17. ASSUME NEW t \in Handlers, StopLock(t) PROVE TypeOK'
  <2>1. \E label \in Labels \ Reading : pc' = [pc EXCEPT ![t] = label]
    BY <1>17 DEF StopLock, Goto, Labels, Reading
  <2>2. /\ pc' \in [Handlers -> Labels]
        /\ \A u \in Handlers : pc'[u] \in Reading => index'[u] \in DOMAIN Fields
    <3>1. index' = index
      BY <1>17 DEF StopLock, locals
    <3> QED
      BY <2>1, <3>1, MoveType
  <2>3. lifecycleMu' = t
    BY <1>17 DEF StopLock, TypeOK, kernel
  <2>4. UNCHANGED <<plugin, kernel, startProcessing, xrayOnline, core, locals>>
    BY <1>17 DEF StopLock
  <2> QED
    BY <2>2, <2>3, <2>4 DEF TypeOK, kernel, manager, locals
<1>18. ASSUME NEW t \in Handlers, StopKill(t) PROVE TypeOK'
  <2>1. \E label \in Labels \ Reading : pc' = [pc EXCEPT ![t] = label]
    BY <1>18 DEF StopKill, Goto, Labels, Reading
  <2>2. /\ pc' \in [Handlers -> Labels]
        /\ \A u \in Handlers : pc'[u] \in Reading => index'[u] \in DOMAIN Fields
    <3>1. index' = index
      BY <1>18 DEF StopKill, locals
    <3> QED
      BY <2>1, <3>1, MoveType
  <2>3. core' \in Torrents \cup {None}
    BY <1>18 DEF StopKill, TypeOK, kernel
  <2>4. xrayOnline' \in BOOLEAN
    BY <1>18 DEF StopKill, TypeOK, kernel
  <2>5. UNCHANGED <<plugin, kernel, lifecycleMu, startProcessing, locals>>
    BY <1>18 DEF StopKill
  <2> QED
    BY <2>2, <2>3, <2>4, <2>5 DEF TypeOK, kernel, manager, locals
<1>19. ASSUME NEW t \in Handlers, StopUnlock(t) PROVE TypeOK'
  <2>1. Return(t) /\ lifecycleMu' = None
    BY <1>19 DEF StopUnlock
  <2>2. UNCHANGED <<plugin, kernel, startProcessing, xrayOnline, core>>
    BY <1>19 DEF StopUnlock
  <2> QED
    BY <2>1, <2>2, ReturnType, FieldsFact DEF TypeOK, kernel
<1>20. ASSUME NEW t \in Handlers, StartCall(t) PROVE TypeOK'
  <2>1. \E label \in Labels \ Reading : pc' = [pc EXCEPT ![t] = label]
    BY <1>20 DEF StartCall, Goto, Labels, Reading
  <2>2. /\ pc' \in [Handlers -> Labels]
        /\ \A u \in Handlers : pc'[u] \in Reading => index'[u] \in DOMAIN Fields
    <3>1. index' = index
      BY <1>20 DEF StartCall, locals
    <3> QED
      BY <2>1, <3>1, MoveType
  <2>3. lifecycleMu' = t
    BY <1>20 DEF StartCall, TypeOK, kernel
  <2>4. UNCHANGED <<plugin, kernel, startProcessing, xrayOnline, core, locals>>
    BY <1>20 DEF StartCall
  <2> QED
    BY <2>2, <2>3, <2>4 DEF TypeOK, kernel, manager, locals
<1>21. ASSUME NEW t \in Handlers, StartMark(t) PROVE TypeOK'
  <2>1. startProcessing' = TRUE
    BY <1>21 DEF StartMark
  <2>2. pc' = [pc EXCEPT ![t] = "opt"] /\ index[t] = 1 /\ "opt" \in Labels
    BY <1>21 DEF StartMark, Goto, ThreadInv, Labels, Reading
  <2>3. UNCHANGED <<plugin, kernel, lifecycleMu, xrayOnline, core, locals>>
    BY <1>21 DEF StartMark
  <2> QED
    BY <2>1, <2>2, <2>3, FieldsFact DEF TypeOK, kernel, locals
<1>22. ASSUME NEW t \in Handlers, StartKeep(t) PROVE TypeOK'
  <2>1. \E label \in Labels \ Reading : pc' = [pc EXCEPT ![t] = label]
    BY <1>22 DEF StartKeep, Goto, Labels, Reading
  <2>2. /\ pc' \in [Handlers -> Labels]
        /\ \A u \in Handlers : pc'[u] \in Reading => index'[u] \in DOMAIN Fields
    <3>1. index' = index
      BY <1>22 DEF StartKeep, locals
    <3> QED
      BY <2>1, <3>1, MoveType
  <2>3. UNCHANGED <<plugin, kernel, manager, locals>>
    BY <1>22 DEF StartKeep
  <2> QED
    BY <2>2, <2>3 DEF TypeOK, kernel, manager, locals
<1>23. ASSUME NEW t \in Handlers, StartGiveUp(t) PROVE TypeOK'
  <2>1. \E label \in Labels \ Reading : pc' = [pc EXCEPT ![t] = label]
    BY <1>23 DEF StartGiveUp, Goto, Labels, Reading
  <2>2. /\ pc' \in [Handlers -> Labels]
        /\ \A u \in Handlers : pc'[u] \in Reading => index'[u] \in DOMAIN Fields
    <3>1. index' = index
      BY <1>23 DEF StartGiveUp, locals
    <3> QED
      BY <2>1, <3>1, MoveType
  <2>3. core' \in Torrents \cup {None}
    BY <1>23 DEF StartGiveUp, TypeOK, kernel
  <2>4. xrayOnline' \in BOOLEAN
    BY <1>23 DEF StartGiveUp, TypeOK, kernel
  <2>5. UNCHANGED <<plugin, kernel, lifecycleMu, startProcessing, locals>>
    BY <1>23 DEF StartGiveUp
  <2> QED
    BY <2>2, <2>3, <2>4, <2>5 DEF TypeOK, kernel, manager, locals
<1>24. ASSUME NEW t \in Handlers, StartReplace(t) PROVE TypeOK'
  <2>1. \E label \in Labels \ Reading : pc' = [pc EXCEPT ![t] = label]
    BY <1>24 DEF StartReplace, Goto, Labels, Reading
  <2>2. /\ pc' \in [Handlers -> Labels]
        /\ \A u \in Handlers : pc'[u] \in Reading => index'[u] \in DOMAIN Fields
    <3>1. index' = index
      BY <1>24 DEF StartReplace, locals
    <3> QED
      BY <2>1, <3>1, MoveType
  <2>3. core' \in Torrents \cup {None}
    BY <1>24 DEF StartReplace, TypeOK, kernel
  <2>4. xrayOnline' \in BOOLEAN
    BY <1>24 DEF StartReplace, TypeOK, kernel
  <2>5. UNCHANGED <<plugin, kernel, lifecycleMu, startProcessing, locals>>
    BY <1>24 DEF StartReplace
  <2> QED
    BY <2>2, <2>3, <2>4, <2>5 DEF TypeOK, kernel, manager, locals
<1>25. ASSUME NEW t \in Handlers, StartSpawn(t) PROVE TypeOK'
  <2>1. \E label \in Labels \ Reading : pc' = [pc EXCEPT ![t] = label]
    BY <1>25 DEF StartSpawn, Goto, Labels, Reading
  <2>2. /\ pc' \in [Handlers -> Labels]
        /\ \A u \in Handlers : pc'[u] \in Reading => index'[u] \in DOMAIN Fields
    <3>1. index' = index
      BY <1>25 DEF StartSpawn, locals
    <3> QED
      BY <2>1, <3>1, MoveType
  <2>1a. seen[t]["opt"] \in Torrents
    BY DEF TypeOK, Reading
  <2>3. core' \in Torrents \cup {None}
    BY <1>25, BlankType, <2>1a DEF StartSpawn, TypeOK, kernel
  <2>4. xrayOnline' \in BOOLEAN
    BY <1>25 DEF StartSpawn, TypeOK, kernel
  <2>5. UNCHANGED <<plugin, kernel, lifecycleMu, startProcessing, locals>>
    BY <1>25 DEF StartSpawn
  <2> QED
    BY <2>2, <2>3, <2>4, <2>5 DEF TypeOK, kernel, manager, locals
<1>26. ASSUME NEW t \in Handlers, StartAwait(t) PROVE TypeOK'
  <2>1. \E label \in Labels \ Reading : pc' = [pc EXCEPT ![t] = label]
    BY <1>26 DEF StartAwait, Goto, Labels, Reading
  <2>2. /\ pc' \in [Handlers -> Labels]
        /\ \A u \in Handlers : pc'[u] \in Reading => index'[u] \in DOMAIN Fields
    <3>1. index' = index
      BY <1>26 DEF StartAwait, locals
    <3> QED
      BY <2>1, <3>1, MoveType
  <2>3. core' \in Torrents \cup {None}
    BY <1>26 DEF StartAwait, TypeOK, kernel
  <2>4. xrayOnline' \in BOOLEAN
    BY <1>26 DEF StartAwait, TypeOK, kernel
  <2>5. UNCHANGED <<plugin, kernel, lifecycleMu, startProcessing, locals>>
    BY <1>26 DEF StartAwait
  <2> QED
    BY <2>2, <2>3, <2>4, <2>5 DEF TypeOK, kernel, manager, locals
<1>27. ASSUME NEW t \in Handlers, StartFinish(t) PROVE TypeOK'
  <2>1. \E label \in Labels \ Reading : pc' = [pc EXCEPT ![t] = label]
    BY <1>27 DEF StartFinish, Goto, Labels, Reading
  <2>2. /\ pc' \in [Handlers -> Labels]
        /\ \A u \in Handlers : pc'[u] \in Reading => index'[u] \in DOMAIN Fields
    <3>1. index' = index
      BY <1>27 DEF StartFinish, locals
    <3> QED
      BY <2>1, <3>1, MoveType
  <2>3. startProcessing' = FALSE
    BY <1>27 DEF StartFinish, TypeOK, kernel
  <2>4. UNCHANGED <<plugin, kernel, lifecycleMu, xrayOnline, core, locals>>
    BY <1>27 DEF StartFinish
  <2> QED
    BY <2>2, <2>3, <2>4 DEF TypeOK, kernel, manager, locals
<1>28. ASSUME NEW t \in Handlers, StartUnlock(t) PROVE TypeOK'
  <2>1. Return(t) /\ lifecycleMu' = None
    BY <1>28 DEF StartUnlock
  <2>2. UNCHANGED <<plugin, kernel, startProcessing, xrayOnline, core>>
    BY <1>28 DEF StartUnlock
  <2> QED
    BY <2>1, <2>2, ReturnType, FieldsFact DEF TypeOK, kernel
<1>29. ASSUME NEW t \in Handlers, Health(t) PROVE TypeOK'
  <2>1. xrayOnline' \in BOOLEAN
    BY <1>29 DEF Health
  <2>2. UNCHANGED <<plugin, kernel, lifecycleMu, startProcessing, core, pc, locals>>
    BY <1>29 DEF Health
  <2> QED
    BY <2>1, <2>2 DEF TypeOK, kernel, locals
<1>30. ASSUME CoreExit PROVE TypeOK'
  <2>1. core' = None /\ xrayOnline' = FALSE
    BY <1>30 DEF CoreExit
  <2>2. UNCHANGED <<plugin, kernel, lifecycleMu, startProcessing, pc, locals>>
    BY <1>30 DEF CoreExit
  <2> QED
    BY <2>1, <2>2 DEF TypeOK, kernel, locals
<1>31. CASE UNCHANGED vars
  BY <1>31 DEF vars, TypeOK, kernel, manager, locals
<1> QED
  BY <1>1, <1>2, <1>3, <1>4, <1>5, <1>6, <1>7, <1>8, <1>9, <1>10, <1>11,
     <1>12, <1>13, <1>14, <1>15, <1>16, <1>17, <1>18, <1>19, <1>20, <1>21,
     <1>22, <1>23, <1>24, <1>25, <1>26, <1>27, <1>28, <1>29, <1>30, <1>31
  DEF Next, SyncStep, ResetStep, LifecycleStep

\* A thread's locals are those of its operation.
LEMMA ThreadNext ==
  ASSUME TypeOK, ThreadInv, [Next]_vars
  PROVE  ThreadInv'
<1> USE NoneAssumption, ServesAssumption
    DEF TypeOK, kernel, manager, locals, Goto, Return, Reading, ThreadInv, Changing, Changer
<1>1. ASSUME NEW t \in Handlers, ReadTorrent(t) PROVE ThreadInv'
  <2>0. pc[t] \in {"was", "now", "opt"} /\ index[t] \in 1..3
    BY <1>1, ReadShape DEF Reading
  <2>1. CASE index[t] < 3
    BY <1>1, <2>0, <2>1, ReadNext
  <2>2. CASE index[t] = 3
    BY <1>1, <2>0, <2>2, ReadNext
  <2> QED
    BY <2>0, <2>1, <2>2
<1>2. ASSUME NEW t \in Handlers, NEW p \in Plugins, SyncCall(t, p) PROVE ThreadInv'
  BY <1>2 DEF SyncCall
<1>3. ASSUME NEW t \in Handlers, SyncUpdate(t) PROVE ThreadInv'
  BY <1>3 DEF SyncUpdate
<1>4. ASSUME NEW t \in Handlers, SyncTables(t) PROVE ThreadInv'
  BY <1>4 DEF SyncTables
<1>5. ASSUME NEW t \in Handlers, SyncScript(t) PROVE ThreadInv'
  BY <1>5 DEF SyncScript
<1>6. ASSUME NEW t \in Handlers, SyncDiscard(t) PROVE ThreadInv'
  BY <1>6 DEF SyncDiscard
<1>7. ASSUME NEW t \in Handlers, SyncRestart(t) PROVE ThreadInv'
  BY <1>7 DEF SyncRestart
<1>8. ASSUME NEW t \in Handlers, SyncRemove(t) PROVE ThreadInv'
  BY <1>8 DEF SyncRemove
<1>9. ASSUME NEW t \in Handlers, SyncRemoveFailed(t) PROVE ThreadInv'
  BY <1>9 DEF SyncRemoveFailed
<1>10. ASSUME NEW t \in Handlers, ClearCall(t) PROVE ThreadInv'
  BY <1>10 DEF ClearCall
<1>11. ASSUME NEW t \in Handlers, StopCall(t) PROVE ThreadInv'
  BY <1>11 DEF StopCall
<1>12. ASSUME NEW t \in Handlers, ResetState(t) PROVE ThreadInv'
  BY <1>12 DEF ResetState
<1>13. ASSUME NEW t \in Handlers, ResetTables(t) PROVE ThreadInv'
  BY <1>13 DEF ResetTables
<1>14. ASSUME NEW t \in Handlers, ResetTablesFailed(t) PROVE ThreadInv'
  BY <1>14 DEF ResetTablesFailed
<1>15. ASSUME NEW t \in Handlers, RecreateTables(t) PROVE ThreadInv'
  BY <1>15 DEF RecreateTables
<1>16. ASSUME NEW t \in Handlers, StopDecide(t) PROVE ThreadInv'
  BY <1>16 DEF StopDecide
<1>17. ASSUME NEW t \in Handlers, StopLock(t) PROVE ThreadInv'
  BY <1>17 DEF StopLock
<1>18. ASSUME NEW t \in Handlers, StopKill(t) PROVE ThreadInv'
  BY <1>18 DEF StopKill
<1>19. ASSUME NEW t \in Handlers, StopUnlock(t) PROVE ThreadInv'
  BY <1>19 DEF StopUnlock
<1>20. ASSUME NEW t \in Handlers, StartCall(t) PROVE ThreadInv'
  BY <1>20 DEF StartCall
<1>21. ASSUME NEW t \in Handlers, StartMark(t) PROVE ThreadInv'
  BY <1>21 DEF StartMark
<1>22. ASSUME NEW t \in Handlers, StartKeep(t) PROVE ThreadInv'
  BY <1>22 DEF StartKeep
<1>23. ASSUME NEW t \in Handlers, StartGiveUp(t) PROVE ThreadInv'
  BY <1>23 DEF StartGiveUp
<1>24. ASSUME NEW t \in Handlers, StartReplace(t) PROVE ThreadInv'
  BY <1>24 DEF StartReplace
<1>25. ASSUME NEW t \in Handlers, StartSpawn(t) PROVE ThreadInv'
  BY <1>25 DEF StartSpawn
<1>26. ASSUME NEW t \in Handlers, StartAwait(t) PROVE ThreadInv'
  BY <1>26 DEF StartAwait
<1>27. ASSUME NEW t \in Handlers, StartFinish(t) PROVE ThreadInv'
  BY <1>27 DEF StartFinish
<1>28. ASSUME NEW t \in Handlers, StartUnlock(t) PROVE ThreadInv'
  BY <1>28 DEF StartUnlock
<1>29. ASSUME NEW t \in Handlers, Health(t) PROVE ThreadInv'
  BY <1>29 DEF Health
<1>30. ASSUME CoreExit PROVE ThreadInv'
  BY <1>30 DEF CoreExit
<1>31. CASE UNCHANGED vars
  BY <1>31 DEF vars
<1> QED
  BY <1>1, <1>2, <1>3, <1>4, <1>5, <1>6, <1>7, <1>8, <1>9, <1>10, <1>11,
     <1>12, <1>13, <1>14, <1>15, <1>16, <1>17, <1>18, <1>19, <1>20, <1>21,
     <1>22, <1>23, <1>24, <1>25, <1>26, <1>27, <1>28, <1>29, <1>30, <1>31
  DEF Next, SyncStep, ResetStep, LifecycleStep

\* The lock is released only by its owner.
LEMMA LockNext ==
  ASSUME TypeOK, LockInv, [Next]_vars
  PROVE  LockInv'
<1> USE NoneAssumption, ServesAssumption
    DEF TypeOK, kernel, manager, locals, Goto, Return, Reading, LockInv, Starting, Holding
<1>1. ASSUME NEW t \in Handlers, ReadTorrent(t) PROVE LockInv'
  <2>0. pc[t] \in {"was", "now", "opt"} /\ index[t] \in 1..3
    BY <1>1, ReadShape DEF Reading
  <2>1. CASE index[t] < 3
    BY <1>1, <2>0, <2>1, ReadNext
  <2>2. CASE index[t] = 3
    BY <1>1, <2>0, <2>2, ReadNext
  <2> QED
    BY <2>0, <2>1, <2>2
<1>2. ASSUME NEW t \in Handlers, NEW p \in Plugins, SyncCall(t, p) PROVE LockInv'
  BY <1>2 DEF SyncCall
<1>3. ASSUME NEW t \in Handlers, SyncUpdate(t) PROVE LockInv'
  BY <1>3 DEF SyncUpdate
<1>4. ASSUME NEW t \in Handlers, SyncTables(t) PROVE LockInv'
  BY <1>4 DEF SyncTables
<1>5. ASSUME NEW t \in Handlers, SyncScript(t) PROVE LockInv'
  BY <1>5 DEF SyncScript
<1>6. ASSUME NEW t \in Handlers, SyncDiscard(t) PROVE LockInv'
  BY <1>6 DEF SyncDiscard
<1>7. ASSUME NEW t \in Handlers, SyncRestart(t) PROVE LockInv'
  BY <1>7 DEF SyncRestart
<1>8. ASSUME NEW t \in Handlers, SyncRemove(t) PROVE LockInv'
  BY <1>8 DEF SyncRemove
<1>9. ASSUME NEW t \in Handlers, SyncRemoveFailed(t) PROVE LockInv'
  BY <1>9 DEF SyncRemoveFailed
<1>10. ASSUME NEW t \in Handlers, ClearCall(t) PROVE LockInv'
  BY <1>10 DEF ClearCall
<1>11. ASSUME NEW t \in Handlers, StopCall(t) PROVE LockInv'
  BY <1>11 DEF StopCall
<1>12. ASSUME NEW t \in Handlers, ResetState(t) PROVE LockInv'
  BY <1>12 DEF ResetState
<1>13. ASSUME NEW t \in Handlers, ResetTables(t) PROVE LockInv'
  BY <1>13 DEF ResetTables
<1>14. ASSUME NEW t \in Handlers, ResetTablesFailed(t) PROVE LockInv'
  BY <1>14 DEF ResetTablesFailed
<1>15. ASSUME NEW t \in Handlers, RecreateTables(t) PROVE LockInv'
  BY <1>15 DEF RecreateTables
<1>16. ASSUME NEW t \in Handlers, StopDecide(t) PROVE LockInv'
  BY <1>16 DEF StopDecide
<1>17. ASSUME NEW t \in Handlers, StopLock(t) PROVE LockInv'
  BY <1>17 DEF StopLock
<1>18. ASSUME NEW t \in Handlers, StopKill(t) PROVE LockInv'
  BY <1>18 DEF StopKill
<1>19. ASSUME NEW t \in Handlers, StopUnlock(t) PROVE LockInv'
  BY <1>19 DEF StopUnlock
<1>20. ASSUME NEW t \in Handlers, StartCall(t) PROVE LockInv'
  BY <1>20 DEF StartCall
<1>21. ASSUME NEW t \in Handlers, StartMark(t) PROVE LockInv'
  BY <1>21 DEF StartMark
<1>22. ASSUME NEW t \in Handlers, StartKeep(t) PROVE LockInv'
  BY <1>22 DEF StartKeep
<1>23. ASSUME NEW t \in Handlers, StartGiveUp(t) PROVE LockInv'
  BY <1>23 DEF StartGiveUp
<1>24. ASSUME NEW t \in Handlers, StartReplace(t) PROVE LockInv'
  BY <1>24 DEF StartReplace
<1>25. ASSUME NEW t \in Handlers, StartSpawn(t) PROVE LockInv'
  BY <1>25 DEF StartSpawn
<1>26. ASSUME NEW t \in Handlers, StartAwait(t) PROVE LockInv'
  BY <1>26 DEF StartAwait
<1>27. ASSUME NEW t \in Handlers, StartFinish(t) PROVE LockInv'
  BY <1>27 DEF StartFinish
<1>28. ASSUME NEW t \in Handlers, StartUnlock(t) PROVE LockInv'
  BY <1>28 DEF StartUnlock
<1>29. ASSUME NEW t \in Handlers, Health(t) PROVE LockInv'
  BY <1>29 DEF Health
<1>30. ASSUME CoreExit PROVE LockInv'
  BY <1>30 DEF CoreExit
<1>31. CASE UNCHANGED vars
  BY <1>31 DEF vars
<1> QED
  BY <1>1, <1>2, <1>3, <1>4, <1>5, <1>6, <1>7, <1>8, <1>9, <1>10, <1>11,
     <1>12, <1>13, <1>14, <1>15, <1>16, <1>17, <1>18, <1>19, <1>20, <1>21,
     <1>22, <1>23, <1>24, <1>25, <1>26, <1>27, <1>28, <1>29, <1>30, <1>31
  DEF Next, SyncStep, ResetStep, LifecycleStep

\* The flag is lowered only by the start that raised it.
LEMMA FlagNext ==
  ASSUME TypeOK, LockInv, FlagInv, [Next]_vars
  PROVE  FlagInv'
<1> USE NoneAssumption, ServesAssumption
    DEF TypeOK, kernel, manager, locals, Goto, Return, Reading, LockInv, FlagInv, Starting, Holding
<1>1. ASSUME NEW t \in Handlers, ReadTorrent(t) PROVE FlagInv'
  <2>0. pc[t] \in {"was", "now", "opt"} /\ index[t] \in 1..3
    BY <1>1, ReadShape DEF Reading
  <2>1. CASE index[t] < 3
    BY <1>1, <2>0, <2>1, ReadNext
  <2>2. CASE index[t] = 3
    BY <1>1, <2>0, <2>2, ReadNext
  <2> QED
    BY <2>0, <2>1, <2>2
<1>2. ASSUME NEW t \in Handlers, NEW p \in Plugins, SyncCall(t, p) PROVE FlagInv'
  BY <1>2 DEF SyncCall
<1>3. ASSUME NEW t \in Handlers, SyncUpdate(t) PROVE FlagInv'
  BY <1>3 DEF SyncUpdate
<1>4. ASSUME NEW t \in Handlers, SyncTables(t) PROVE FlagInv'
  BY <1>4 DEF SyncTables
<1>5. ASSUME NEW t \in Handlers, SyncScript(t) PROVE FlagInv'
  BY <1>5 DEF SyncScript
<1>6. ASSUME NEW t \in Handlers, SyncDiscard(t) PROVE FlagInv'
  BY <1>6 DEF SyncDiscard
<1>7. ASSUME NEW t \in Handlers, SyncRestart(t) PROVE FlagInv'
  BY <1>7 DEF SyncRestart
<1>8. ASSUME NEW t \in Handlers, SyncRemove(t) PROVE FlagInv'
  BY <1>8 DEF SyncRemove
<1>9. ASSUME NEW t \in Handlers, SyncRemoveFailed(t) PROVE FlagInv'
  BY <1>9 DEF SyncRemoveFailed
<1>10. ASSUME NEW t \in Handlers, ClearCall(t) PROVE FlagInv'
  BY <1>10 DEF ClearCall
<1>11. ASSUME NEW t \in Handlers, StopCall(t) PROVE FlagInv'
  BY <1>11 DEF StopCall
<1>12. ASSUME NEW t \in Handlers, ResetState(t) PROVE FlagInv'
  BY <1>12 DEF ResetState
<1>13. ASSUME NEW t \in Handlers, ResetTables(t) PROVE FlagInv'
  BY <1>13 DEF ResetTables
<1>14. ASSUME NEW t \in Handlers, ResetTablesFailed(t) PROVE FlagInv'
  BY <1>14 DEF ResetTablesFailed
<1>15. ASSUME NEW t \in Handlers, RecreateTables(t) PROVE FlagInv'
  BY <1>15 DEF RecreateTables
<1>16. ASSUME NEW t \in Handlers, StopDecide(t) PROVE FlagInv'
  BY <1>16 DEF StopDecide
<1>17. ASSUME NEW t \in Handlers, StopLock(t) PROVE FlagInv'
  BY <1>17 DEF StopLock
<1>18. ASSUME NEW t \in Handlers, StopKill(t) PROVE FlagInv'
  BY <1>18 DEF StopKill
<1>19. ASSUME NEW t \in Handlers, StopUnlock(t) PROVE FlagInv'
  BY <1>19 DEF StopUnlock
<1>20. ASSUME NEW t \in Handlers, StartCall(t) PROVE FlagInv'
  BY <1>20 DEF StartCall
<1>21. ASSUME NEW t \in Handlers, StartMark(t) PROVE FlagInv'
  BY <1>21 DEF StartMark
<1>22. ASSUME NEW t \in Handlers, StartKeep(t) PROVE FlagInv'
  BY <1>22 DEF StartKeep
<1>23. ASSUME NEW t \in Handlers, StartGiveUp(t) PROVE FlagInv'
  BY <1>23 DEF StartGiveUp
<1>24. ASSUME NEW t \in Handlers, StartReplace(t) PROVE FlagInv'
  BY <1>24 DEF StartReplace
<1>25. ASSUME NEW t \in Handlers, StartSpawn(t) PROVE FlagInv'
  BY <1>25 DEF StartSpawn
<1>26. ASSUME NEW t \in Handlers, StartAwait(t) PROVE FlagInv'
  BY <1>26 DEF StartAwait
<1>27. ASSUME NEW t \in Handlers, StartFinish(t) PROVE FlagInv'
  BY <1>27 DEF StartFinish
<1>28. ASSUME NEW t \in Handlers, StartUnlock(t) PROVE FlagInv'
  BY <1>28 DEF StartUnlock
<1>29. ASSUME NEW t \in Handlers, Health(t) PROVE FlagInv'
  BY <1>29 DEF Health
<1>30. ASSUME CoreExit PROVE FlagInv'
  BY <1>30 DEF CoreExit
<1>31. CASE UNCHANGED vars
  BY <1>31 DEF vars
<1> QED
  BY <1>1, <1>2, <1>3, <1>4, <1>5, <1>6, <1>7, <1>8, <1>9, <1>10, <1>11,
     <1>12, <1>13, <1>14, <1>15, <1>16, <1>17, <1>18, <1>19, <1>20, <1>21,
     <1>22, <1>23, <1>24, <1>25, <1>26, <1>27, <1>28, <1>29, <1>30, <1>31
  DEF Next, SyncStep, ResetStep, LifecycleStep

\* Nobody else replaces the plugin of a sync.
LEMMA StoredNext ==
  ASSUME OneChanger, TypeOK, ThreadInv, StoredInv, [Next]_vars
  PROVE  StoredInv'
<1> USE NoneAssumption, ServesAssumption
    DEF TypeOK, kernel, manager, locals, Goto, Return, Reading, OneChanger, ThreadInv, StoredInv, Changing
<1>1. ASSUME NEW t \in Handlers, ReadTorrent(t) PROVE StoredInv'
  <2>0. pc[t] \in {"was", "now", "opt"} /\ index[t] \in 1..3
    BY <1>1, ReadShape DEF Reading
  <2>1. CASE index[t] < 3
    BY <1>1, <2>0, <2>1, ReadNext
  <2>2. CASE index[t] = 3
    BY <1>1, <2>0, <2>2, ReadNext
  <2> QED
    BY <2>0, <2>1, <2>2
<1>2. ASSUME NEW t \in Handlers, NEW p \in Plugins, SyncCall(t, p) PROVE StoredInv'
  BY <1>2 DEF SyncCall
<1>3. ASSUME NEW t \in Handlers, SyncUpdate(t) PROVE StoredInv'
  BY <1>3 DEF SyncUpdate
<1>4. ASSUME NEW t \in Handlers, SyncTables(t) PROVE StoredInv'
  BY <1>4 DEF SyncTables
<1>5. ASSUME NEW t \in Handlers, SyncScript(t) PROVE StoredInv'
  BY <1>5 DEF SyncScript
<1>6. ASSUME NEW t \in Handlers, SyncDiscard(t) PROVE StoredInv'
  BY <1>6 DEF SyncDiscard
<1>7. ASSUME NEW t \in Handlers, SyncRestart(t) PROVE StoredInv'
  BY <1>7 DEF SyncRestart
<1>8. ASSUME NEW t \in Handlers, SyncRemove(t) PROVE StoredInv'
  BY <1>8 DEF SyncRemove
<1>9. ASSUME NEW t \in Handlers, SyncRemoveFailed(t) PROVE StoredInv'
  BY <1>9 DEF SyncRemoveFailed
<1>10. ASSUME NEW t \in Handlers, ClearCall(t) PROVE StoredInv'
  BY <1>10 DEF ClearCall
<1>11. ASSUME NEW t \in Handlers, StopCall(t) PROVE StoredInv'
  BY <1>11 DEF StopCall
<1>12. ASSUME NEW t \in Handlers, ResetState(t) PROVE StoredInv'
  BY <1>12 DEF ResetState
<1>13. ASSUME NEW t \in Handlers, ResetTables(t) PROVE StoredInv'
  BY <1>13 DEF ResetTables
<1>14. ASSUME NEW t \in Handlers, ResetTablesFailed(t) PROVE StoredInv'
  BY <1>14 DEF ResetTablesFailed
<1>15. ASSUME NEW t \in Handlers, RecreateTables(t) PROVE StoredInv'
  BY <1>15 DEF RecreateTables
<1>16. ASSUME NEW t \in Handlers, StopDecide(t) PROVE StoredInv'
  BY <1>16 DEF StopDecide
<1>17. ASSUME NEW t \in Handlers, StopLock(t) PROVE StoredInv'
  BY <1>17 DEF StopLock
<1>18. ASSUME NEW t \in Handlers, StopKill(t) PROVE StoredInv'
  BY <1>18 DEF StopKill
<1>19. ASSUME NEW t \in Handlers, StopUnlock(t) PROVE StoredInv'
  BY <1>19 DEF StopUnlock
<1>20. ASSUME NEW t \in Handlers, StartCall(t) PROVE StoredInv'
  BY <1>20 DEF StartCall
<1>21. ASSUME NEW t \in Handlers, StartMark(t) PROVE StoredInv'
  BY <1>21 DEF StartMark
<1>22. ASSUME NEW t \in Handlers, StartKeep(t) PROVE StoredInv'
  BY <1>22 DEF StartKeep
<1>23. ASSUME NEW t \in Handlers, StartGiveUp(t) PROVE StoredInv'
  BY <1>23 DEF StartGiveUp
<1>24. ASSUME NEW t \in Handlers, StartReplace(t) PROVE StoredInv'
  BY <1>24 DEF StartReplace
<1>25. ASSUME NEW t \in Handlers, StartSpawn(t) PROVE StoredInv'
  BY <1>25 DEF StartSpawn
<1>26. ASSUME NEW t \in Handlers, StartAwait(t) PROVE StoredInv'
  BY <1>26 DEF StartAwait
<1>27. ASSUME NEW t \in Handlers, StartFinish(t) PROVE StoredInv'
  BY <1>27 DEF StartFinish
<1>28. ASSUME NEW t \in Handlers, StartUnlock(t) PROVE StoredInv'
  BY <1>28 DEF StartUnlock
<1>29. ASSUME NEW t \in Handlers, Health(t) PROVE StoredInv'
  BY <1>29 DEF Health
<1>30. ASSUME CoreExit PROVE StoredInv'
  BY <1>30 DEF CoreExit
<1>31. CASE UNCHANGED vars
  BY <1>31 DEF vars
<1> QED
  BY <1>1, <1>2, <1>3, <1>4, <1>5, <1>6, <1>7, <1>8, <1>9, <1>10, <1>11,
     <1>12, <1>13, <1>14, <1>15, <1>16, <1>17, <1>18, <1>19, <1>20, <1>21,
     <1>22, <1>23, <1>24, <1>25, <1>26, <1>27, <1>28, <1>29, <1>30, <1>31
  DEF Next, SyncStep, ResetStep, LifecycleStep

\* The sets grow script by script.
LEMMA ScriptNext ==
  ASSUME OneChanger, TypeOK, ThreadInv, ScriptInv, [Next]_vars
  PROVE  ScriptInv'
<1> USE NoneAssumption, ServesAssumption
    DEF TypeOK, kernel, manager, locals, Goto, Return, Reading, OneChanger, ThreadInv, ScriptInv, Changing
<1>1. ASSUME NEW t \in Handlers, ReadTorrent(t) PROVE ScriptInv'
  <2>0. pc[t] \in {"was", "now", "opt"} /\ index[t] \in 1..3
    BY <1>1, ReadShape DEF Reading
  <2>1. CASE index[t] < 3
    BY <1>1, <2>0, <2>1, ReadNext
  <2>2. CASE index[t] = 3
    BY <1>1, <2>0, <2>2, ReadNext
  <2> QED
    BY <2>0, <2>1, <2>2
<1>2. ASSUME NEW t \in Handlers, NEW p \in Plugins, SyncCall(t, p) PROVE ScriptInv'
  BY <1>2 DEF SyncCall
<1>3. ASSUME NEW t \in Handlers, SyncUpdate(t) PROVE ScriptInv'
  BY <1>3 DEF SyncUpdate
<1>4. ASSUME NEW t \in Handlers, SyncTables(t) PROVE ScriptInv'
  <2>1. CASE pc' = [pc EXCEPT ![t] = "scripts"]
    <3>1. filters' = {} /\ payload' = payload /\ index' = index /\ index[t] = 1
      BY <1>4, <2>1 DEF SyncTables
    <3>2. payload[t] \in Plugins /\ \A u \in Handlers : pc'[u] = "scripts" => u = t
      BY <1>4, <2>1 DEF SyncTables
    <3>3. Scripts(payload[t], 0) = {} /\ Len(Filters[payload[t]]) \in Nat
      BY <3>2, ScriptsFact, ScriptCount
    <3> QED
      BY <3>1, <3>2, <3>3
  <2>2. CASE pc' # [pc EXCEPT ![t] = "scripts"]
    BY <1>4, <2>2 DEF SyncTables
  <2> QED
    BY <2>1, <2>2
<1>5. ASSUME NEW t \in Handlers, SyncScript(t) PROVE ScriptInv'
  <2>1. CASE index[t] \in DOMAIN Filters[payload[t]] /\ pc' = [pc EXCEPT ![t] = "discard"]
    BY <1>5, <2>1 DEF SyncScript
  <2>2. CASE index[t] \in DOMAIN Filters[payload[t]] /\ pc' # [pc EXCEPT ![t] = "discard"]
    <3>1. /\ filters' = filters \cup Filters[payload[t]][index[t]]
          /\ index' = [index EXCEPT ![t] = index[t] + 1]
          /\ pc' = pc /\ payload' = payload /\ recreated' = recreated /\ pc[t] = "scripts"
      BY <1>5, <2>2 DEF SyncScript
    <3>2. payload[t] \in Plugins
      BY <3>1
    <3>3. /\ index[t] \in 1..Len(Filters[payload[t]])
          /\ recreated \/ filters = Scripts(payload[t], index[t] - 1)
      BY <2>2, <3>1, <3>2, ScriptCount
    <3>4. Scripts(payload[t], index[t]) =
            Scripts(payload[t], index[t] - 1) \cup Filters[payload[t]][index[t]]
      <4> DEFINE n == index[t] - 1
      <4>1. n \in Nat /\ n + 1 = index[t]
        BY <3>3
      <4>2. Scripts(payload[t], n + 1) = Scripts(payload[t], n) \cup Filters[payload[t]][n + 1]
        BY <3>2, <4>1, ScriptsFact
      <4> QED
        BY <4>1, <4>2
    <3>5. \A u \in Handlers : pc'[u] = "scripts" => u = t
      BY <3>1
    <3>6. index'[t] = index[t] + 1 /\ index'[t] - 1 = index[t]
      BY <3>1
    <3>7. Len(Filters[payload[t]]) \in Nat
      BY <3>2, ScriptCount
    <3> QED
      BY <3>1, <3>3, <3>4, <3>5, <3>6, <3>7
  <2>3. CASE index[t] \notin DOMAIN Filters[payload[t]]
    BY <1>5, <2>3 DEF SyncScript
  <2> QED
    BY <2>1, <2>2, <2>3
<1>6. ASSUME NEW t \in Handlers, SyncDiscard(t) PROVE ScriptInv'
  BY <1>6 DEF SyncDiscard
<1>7. ASSUME NEW t \in Handlers, SyncRestart(t) PROVE ScriptInv'
  BY <1>7 DEF SyncRestart
<1>8. ASSUME NEW t \in Handlers, SyncRemove(t) PROVE ScriptInv'
  BY <1>8 DEF SyncRemove
<1>9. ASSUME NEW t \in Handlers, SyncRemoveFailed(t) PROVE ScriptInv'
  BY <1>9 DEF SyncRemoveFailed
<1>10. ASSUME NEW t \in Handlers, ClearCall(t) PROVE ScriptInv'
  BY <1>10 DEF ClearCall
<1>11. ASSUME NEW t \in Handlers, StopCall(t) PROVE ScriptInv'
  BY <1>11 DEF StopCall
<1>12. ASSUME NEW t \in Handlers, ResetState(t) PROVE ScriptInv'
  BY <1>12 DEF ResetState
<1>13. ASSUME NEW t \in Handlers, ResetTables(t) PROVE ScriptInv'
  BY <1>13 DEF ResetTables
<1>14. ASSUME NEW t \in Handlers, ResetTablesFailed(t) PROVE ScriptInv'
  BY <1>14 DEF ResetTablesFailed
<1>15. ASSUME NEW t \in Handlers, RecreateTables(t) PROVE ScriptInv'
  BY <1>15 DEF RecreateTables
<1>16. ASSUME NEW t \in Handlers, StopDecide(t) PROVE ScriptInv'
  BY <1>16 DEF StopDecide
<1>17. ASSUME NEW t \in Handlers, StopLock(t) PROVE ScriptInv'
  BY <1>17 DEF StopLock
<1>18. ASSUME NEW t \in Handlers, StopKill(t) PROVE ScriptInv'
  BY <1>18 DEF StopKill
<1>19. ASSUME NEW t \in Handlers, StopUnlock(t) PROVE ScriptInv'
  BY <1>19 DEF StopUnlock
<1>20. ASSUME NEW t \in Handlers, StartCall(t) PROVE ScriptInv'
  BY <1>20 DEF StartCall
<1>21. ASSUME NEW t \in Handlers, StartMark(t) PROVE ScriptInv'
  BY <1>21 DEF StartMark
<1>22. ASSUME NEW t \in Handlers, StartKeep(t) PROVE ScriptInv'
  BY <1>22 DEF StartKeep
<1>23. ASSUME NEW t \in Handlers, StartGiveUp(t) PROVE ScriptInv'
  BY <1>23 DEF StartGiveUp
<1>24. ASSUME NEW t \in Handlers, StartReplace(t) PROVE ScriptInv'
  BY <1>24 DEF StartReplace
<1>25. ASSUME NEW t \in Handlers, StartSpawn(t) PROVE ScriptInv'
  BY <1>25 DEF StartSpawn
<1>26. ASSUME NEW t \in Handlers, StartAwait(t) PROVE ScriptInv'
  BY <1>26 DEF StartAwait
<1>27. ASSUME NEW t \in Handlers, StartFinish(t) PROVE ScriptInv'
  BY <1>27 DEF StartFinish
<1>28. ASSUME NEW t \in Handlers, StartUnlock(t) PROVE ScriptInv'
  BY <1>28 DEF StartUnlock
<1>29. ASSUME NEW t \in Handlers, Health(t) PROVE ScriptInv'
  BY <1>29 DEF Health
<1>30. ASSUME CoreExit PROVE ScriptInv'
  BY <1>30 DEF CoreExit
<1>31. CASE UNCHANGED vars
  BY <1>31 DEF vars
<1> QED
  BY <1>1, <1>2, <1>3, <1>4, <1>5, <1>6, <1>7, <1>8, <1>9, <1>10, <1>11,
     <1>12, <1>13, <1>14, <1>15, <1>16, <1>17, <1>18, <1>19, <1>20, <1>21,
     <1>22, <1>23, <1>24, <1>25, <1>26, <1>27, <1>28, <1>29, <1>30, <1>31
  DEF Next, SyncStep, ResetStep, LifecycleStep

\* A plugin is stored before its sync fills the sets, and forgotten when it cannot.
LEMMA InstallNext ==
  ASSUME OneChanger, NftAvailable, TypeOK, ThreadInv, StoredInv, ScriptInv, InstallInv, [Next]_vars
  PROVE  InstallInv'
<1>31. CASE UNCHANGED vars
  BY <1>31 DEF vars, kernel, manager, locals, InstallInv, Installing
<1> USE NoneAssumption, ServesAssumption
    DEF TypeOK, kernel, manager, locals, Goto, Return, Reading, OneChanger, ThreadInv, StoredInv, ScriptInv,
        InstallInv, Installing, Changing
<1>1. ASSUME NEW t \in Handlers, ReadTorrent(t) PROVE InstallInv'
  <2>0. pc[t] \in {"was", "now", "opt"} /\ index[t] \in 1..3
    BY <1>1, ReadShape DEF Reading
  <2>1. CASE index[t] < 3
    BY <1>1, <2>0, <2>1, ReadNext
  <2>2. CASE index[t] = 3
    BY <1>1, <2>0, <2>2, ReadNext
  <2> QED
    BY <2>0, <2>1, <2>2
<1>2. ASSUME NEW t \in Handlers, NEW p \in Plugins, SyncCall(t, p) PROVE InstallInv'
  BY <1>2 DEF SyncCall
<1>3. ASSUME NEW t \in Handlers, SyncUpdate(t) PROVE InstallInv'
  BY <1>3 DEF SyncUpdate
<1>4. ASSUME NEW t \in Handlers, SyncTables(t) PROVE InstallInv'
  BY <1>4 DEF SyncTables
<1>5. ASSUME NEW t \in Handlers, SyncScript(t) PROVE InstallInv'
  <2>1. CASE index[t] \in DOMAIN Filters[payload[t]]
    BY <1>5, <2>1 DEF SyncScript
  <2>2. CASE index[t] \notin DOMAIN Filters[payload[t]]
    <3>1. filters' = filters /\ plugin' = plugin /\ recreated' = recreated /\ pc[t] = "scripts"
      BY <1>5, <2>2 DEF SyncScript
    <3>2. plugin = payload[t] /\ payload[t] \in Plugins
      BY <3>1
    <3>3. index[t] - 1 = Len(Filters[payload[t]])
      <4>1. index[t] \in 1..(Len(Filters[payload[t]]) + 1)
        BY <3>1
      <4>2. /\ Len(Filters[payload[t]]) \in Nat
            /\ DOMAIN Filters[payload[t]] = 1..Len(Filters[payload[t]])
        BY <3>2, ScriptCount
      <4> QED
        BY <2>2, <4>1, <4>2
    <3>4. recreated \/ filters = Installed(plugin)
      BY <3>1, <3>2, <3>3, ScriptsFact
    <3> QED
      BY <3>1, <3>4
  <2> QED
    BY <2>1, <2>2
<1>6. ASSUME NEW t \in Handlers, SyncDiscard(t) PROVE InstallInv'
  BY <1>6 DEF SyncDiscard
<1>7. ASSUME NEW t \in Handlers, SyncRestart(t) PROVE InstallInv'
  BY <1>7 DEF SyncRestart
<1>8. ASSUME NEW t \in Handlers, SyncRemove(t) PROVE InstallInv'
  BY <1>8 DEF SyncRemove
<1>9. ASSUME NEW t \in Handlers, SyncRemoveFailed(t) PROVE InstallInv'
  BY <1>9 DEF SyncRemoveFailed
<1>10. ASSUME NEW t \in Handlers, ClearCall(t) PROVE InstallInv'
  BY <1>10 DEF ClearCall
<1>11. ASSUME NEW t \in Handlers, StopCall(t) PROVE InstallInv'
  BY <1>11 DEF StopCall
<1>12. ASSUME NEW t \in Handlers, ResetState(t) PROVE InstallInv'
  BY <1>12 DEF ResetState
<1>13. ASSUME NEW t \in Handlers, ResetTables(t) PROVE InstallInv'
  BY <1>13 DEF ResetTables
<1>14. ASSUME NEW t \in Handlers, ResetTablesFailed(t) PROVE InstallInv'
  BY <1>14 DEF ResetTablesFailed
<1>15. ASSUME NEW t \in Handlers, RecreateTables(t) PROVE InstallInv'
  BY <1>15 DEF RecreateTables
<1>16. ASSUME NEW t \in Handlers, StopDecide(t) PROVE InstallInv'
  BY <1>16 DEF StopDecide
<1>17. ASSUME NEW t \in Handlers, StopLock(t) PROVE InstallInv'
  BY <1>17 DEF StopLock
<1>18. ASSUME NEW t \in Handlers, StopKill(t) PROVE InstallInv'
  BY <1>18 DEF StopKill
<1>19. ASSUME NEW t \in Handlers, StopUnlock(t) PROVE InstallInv'
  BY <1>19 DEF StopUnlock
<1>20. ASSUME NEW t \in Handlers, StartCall(t) PROVE InstallInv'
  BY <1>20 DEF StartCall
<1>21. ASSUME NEW t \in Handlers, StartMark(t) PROVE InstallInv'
  BY <1>21 DEF StartMark
<1>22. ASSUME NEW t \in Handlers, StartKeep(t) PROVE InstallInv'
  BY <1>22 DEF StartKeep
<1>23. ASSUME NEW t \in Handlers, StartGiveUp(t) PROVE InstallInv'
  BY <1>23 DEF StartGiveUp
<1>24. ASSUME NEW t \in Handlers, StartReplace(t) PROVE InstallInv'
  BY <1>24 DEF StartReplace
<1>25. ASSUME NEW t \in Handlers, StartSpawn(t) PROVE InstallInv'
  BY <1>25 DEF StartSpawn
<1>26. ASSUME NEW t \in Handlers, StartAwait(t) PROVE InstallInv'
  BY <1>26 DEF StartAwait
<1>27. ASSUME NEW t \in Handlers, StartFinish(t) PROVE InstallInv'
  BY <1>27 DEF StartFinish
<1>28. ASSUME NEW t \in Handlers, StartUnlock(t) PROVE InstallInv'
  BY <1>28 DEF StartUnlock
<1>29. ASSUME NEW t \in Handlers, Health(t) PROVE InstallInv'
  BY <1>29 DEF Health
<1>30. ASSUME CoreExit PROVE InstallInv'
  BY <1>30 DEF CoreExit
<1> HIDE DEF TypeOK, kernel, manager, locals, Goto, Return, Reading, OneChanger,
             ThreadInv, StoredInv, ScriptInv, InstallInv, Installing, Changing
<1> QED
  BY <1>1, <1>2, <1>3, <1>4, <1>5, <1>6, <1>7, <1>8, <1>9, <1>10, <1>11,
     <1>12, <1>13, <1>14, <1>15, <1>16, <1>17, <1>18, <1>19, <1>20, <1>21,
     <1>22, <1>23, <1>24, <1>25, <1>26, <1>27, <1>28, <1>29, <1>30, <1>31
  DEF Next, SyncStep, ResetStep, LifecycleStep

\* What a sync has read stays true until it replaces the plugin itself.
LEMMA CurrentNext ==
  ASSUME OneChanger, TypeOK, ThreadInv, StoredInv, ReadInv, [Next]_vars
  PROVE  ReadInv'
<1>31. CASE UNCHANGED vars
  BY <1>31 DEF vars, kernel, manager, locals, ReadInv, HasRead, Current
<1> USE NoneAssumption, ServesAssumption
    DEF TypeOK, kernel, manager, locals, Goto, Return, Reading, OneChanger, ThreadInv, StoredInv, ReadInv, HasRead,
        Changing
<1>1. ASSUME NEW t \in Handlers, ReadTorrent(t) PROVE ReadInv'
  <2>0. Current' = Current
    BY <1>1, ReadNext DEF Current
  <2>1. \A u \in Handlers : u # t => pc'[u] = pc[u] /\ index'[u] = index[u] /\ seen'[u] = seen[u]
    BY <1>1, ReadNext, ReadShape
  <2>2. CASE pc[t] = "opt"
    <3>1. pc'[t] \in {"opt", "start.decide"}
      BY <1>1, <2>2, ReadNext
    <3> QED
      BY <2>0, <2>1, <3>1
  <2>3. CASE pc[t] \in {"was", "now"}
    <3>1. HasRead(t, pc[t])
      BY <2>3
    <3>2. /\ index[t] = 3 => seen'[t][pc[t]] = Current
          /\ \A i \in 1..3 : i < index[t] + 1
               => seen'[t][pc[t]][Fields[i]] = Current[Fields[i]]
      BY <1>1, <3>1, AllRead
    <3>3. CASE index[t] < 3
      <4>1. pc' = pc /\ index'[t] = index[t] + 1
        BY <1>1, <3>3, ReadNext
      <4> QED
        BY <2>0, <2>1, <2>3, <3>2, <4>1
    <3>4. CASE index[t] = 3
      <4>1. CASE pc[t] = "was"
        <5>1. pc'[t] = "update" /\ seen'[t]["was"] = Current
          BY <1>1, <3>2, <3>4, <4>1, ReadNext
        <5> QED
          BY <2>0, <2>1, <5>1
      <4>2. CASE pc[t] = "now"
        <5>1. pc'[t] = "tables" /\ seen'[t]["now"] = Current
          BY <1>1, <3>2, <3>4, <4>2, ReadNext
        <5> QED
          BY <2>0, <2>1, <5>1
      <4> QED
        BY <2>3, <4>1, <4>2
    <3>5. index[t] < 3 \/ index[t] = 3
      BY <1>1, ReadShape
    <3> QED
      BY <3>3, <3>4, <3>5
  <2>4. pc[t] \in {"was", "now", "opt"}
    BY <1>1, ReadShape
  <2> QED
    BY <2>2, <2>3, <2>4
<1>2. ASSUME NEW t \in Handlers, NEW p \in Plugins, SyncCall(t, p) PROVE ReadInv'
  BY <1>2 DEF SyncCall, Current
<1>3. ASSUME NEW t \in Handlers, SyncUpdate(t) PROVE ReadInv'
  <2>1. \A u \in Handlers : u # t => pc[u] \notin Changing
    BY <1>3 DEF SyncUpdate
  <2>2. pc' = [pc EXCEPT ![t] = "now"] /\ index'[t] = 1
    BY <1>3 DEF SyncUpdate
  <2>3. \A u \in Handlers : u # t => pc'[u] \notin Changing
    BY <2>1, <2>2
  <2> SUFFICES ASSUME NEW u \in Handlers
               PROVE  (/\ pc[u] = "was" => HasRead(u, "was")
                       /\ pc[u] = "update" => seen[u]["was"] = Current
                       /\ pc[u] = "now" => HasRead(u, "now")
                       /\ pc[u] \in {"tables", "scripts", "restart"} => seen[u]["now"] = Current
                       /\ pc[u] = "remove" => ~Current.enabled)'
    BY DEF ReadInv
  <2>4. CASE u = t
    BY <2>2, <2>4
  <2>5. CASE u # t
    <3>1. pc'[u] \notin {"was", "update", "now", "tables", "scripts", "restart", "remove"}
      BY <2>3, <2>5
    <3> QED
      BY <3>1
  <2> QED
    BY <2>4, <2>5
<1>4. ASSUME NEW t \in Handlers, SyncTables(t) PROVE ReadInv'
  BY <1>4 DEF SyncTables, Current
<1>5. ASSUME NEW t \in Handlers, SyncScript(t) PROVE ReadInv'
  BY <1>5 DEF SyncScript, Current
<1>6. ASSUME NEW t \in Handlers, SyncDiscard(t) PROVE ReadInv'
  BY <1>6 DEF SyncDiscard, Current
<1>7. ASSUME NEW t \in Handlers, SyncRestart(t) PROVE ReadInv'
  <2>1. seen[t]["now"] = Current /\ Current' = Current
    BY <1>7 DEF SyncRestart, Current
  <2>2. \A u \in Handlers : u # t => pc'[u] = pc[u] /\ index'[u] = index[u] /\ seen'[u] = seen[u]
    BY <1>7 DEF SyncRestart
  <2>3. CASE Removable(seen[t]["was"], seen[t]["now"])
    <3>1. ~Current.enabled
      BY <2>1, <2>3 DEF Removable
    <3>2. pc'[t] = "remove"
      BY <1>7, <2>3 DEF SyncRestart
    <3> QED
      BY <2>1, <2>2, <3>1, <3>2
  <2>4. CASE ~Removable(seen[t]["was"], seen[t]["now"])
    <3>1. pc'[t] \in {"stop.decide", "idle"}
      BY <1>7, <2>4 DEF SyncRestart
    <3> QED
      BY <2>1, <2>2, <3>1
  <2> QED
    BY <2>3, <2>4
<1>8. ASSUME NEW t \in Handlers, SyncRemove(t) PROVE ReadInv'
  BY <1>8 DEF SyncRemove, Current
<1>9. ASSUME NEW t \in Handlers, SyncRemoveFailed(t) PROVE ReadInv'
  BY <1>9 DEF SyncRemoveFailed, Current
<1>10. ASSUME NEW t \in Handlers, ClearCall(t) PROVE ReadInv'
  BY <1>10 DEF ClearCall, Current
<1>11. ASSUME NEW t \in Handlers, StopCall(t) PROVE ReadInv'
  BY <1>11 DEF StopCall, Current
<1>12. ASSUME NEW t \in Handlers, ResetState(t) PROVE ReadInv'
  BY <1>12 DEF ResetState, Current
<1>13. ASSUME NEW t \in Handlers, ResetTables(t) PROVE ReadInv'
  BY <1>13 DEF ResetTables, Current
<1>14. ASSUME NEW t \in Handlers, ResetTablesFailed(t) PROVE ReadInv'
  BY <1>14 DEF ResetTablesFailed, Current
<1>15. ASSUME NEW t \in Handlers, RecreateTables(t) PROVE ReadInv'
  BY <1>15 DEF RecreateTables, Current
<1>16. ASSUME NEW t \in Handlers, StopDecide(t) PROVE ReadInv'
  BY <1>16 DEF StopDecide, Current
<1>17. ASSUME NEW t \in Handlers, StopLock(t) PROVE ReadInv'
  BY <1>17 DEF StopLock, Current
<1>18. ASSUME NEW t \in Handlers, StopKill(t) PROVE ReadInv'
  BY <1>18 DEF StopKill, Current
<1>19. ASSUME NEW t \in Handlers, StopUnlock(t) PROVE ReadInv'
  BY <1>19 DEF StopUnlock, Current
<1>20. ASSUME NEW t \in Handlers, StartCall(t) PROVE ReadInv'
  BY <1>20 DEF StartCall, Current
<1>21. ASSUME NEW t \in Handlers, StartMark(t) PROVE ReadInv'
  BY <1>21 DEF StartMark, Current
<1>22. ASSUME NEW t \in Handlers, StartKeep(t) PROVE ReadInv'
  BY <1>22 DEF StartKeep, Current
<1>23. ASSUME NEW t \in Handlers, StartGiveUp(t) PROVE ReadInv'
  BY <1>23 DEF StartGiveUp, Current
<1>24. ASSUME NEW t \in Handlers, StartReplace(t) PROVE ReadInv'
  BY <1>24 DEF StartReplace, Current
<1>25. ASSUME NEW t \in Handlers, StartSpawn(t) PROVE ReadInv'
  BY <1>25 DEF StartSpawn, Current
<1>26. ASSUME NEW t \in Handlers, StartAwait(t) PROVE ReadInv'
  BY <1>26 DEF StartAwait, Current
<1>27. ASSUME NEW t \in Handlers, StartFinish(t) PROVE ReadInv'
  BY <1>27 DEF StartFinish, Current
<1>28. ASSUME NEW t \in Handlers, StartUnlock(t) PROVE ReadInv'
  BY <1>28 DEF StartUnlock, Current
<1>29. ASSUME NEW t \in Handlers, Health(t) PROVE ReadInv'
  BY <1>29 DEF Health, Current
<1>30. ASSUME CoreExit PROVE ReadInv'
  BY <1>30 DEF CoreExit, Current
<1> HIDE DEF TypeOK, kernel, manager, locals, Goto, Return, Reading, OneChanger,
             ThreadInv, StoredInv, ReadInv, HasRead, Changing
<1> QED
  BY <1>1, <1>2, <1>3, <1>4, <1>5, <1>6, <1>7, <1>8, <1>9, <1>10, <1>11,
     <1>12, <1>13, <1>14, <1>15, <1>16, <1>17, <1>18, <1>19, <1>20, <1>21,
     <1>22, <1>23, <1>24, <1>25, <1>26, <1>27, <1>28, <1>29, <1>30, <1>31
  DEF Next, SyncStep, ResetStep, LifecycleStep

\* A change of the settings is followed by a stop of every core that was given the old ones.
LEMMA ServedNext ==
  ASSUME OneChanger, TypeOK, ThreadInv, LockInv, FlagInv, StoredInv, ReadInv, ServedInv, [Next]_vars
  PROVE  ServedInv'
<1>31. CASE UNCHANGED vars
  BY <1>31 DEF vars, kernel, manager, locals, ServedInv, Replacing, HasRead, Current
<1> USE NoneAssumption, ServesAssumption
    DEF TypeOK, kernel, manager, locals, Goto, Return, Reading, OneChanger, ThreadInv, StoredInv, LockInv,
        FlagInv, ReadInv, ServedInv, Replacing, Changing, Starting, Holding, HasRead
<1>1. ASSUME NEW t \in Handlers, ReadTorrent(t) PROVE ServedInv'
  <2>1. Current' = Current /\ core' = core
    BY <1>1, ReadNext DEF Current
  <2>2. \A u \in Handlers : u # t => pc'[u] = pc[u] /\ index'[u] = index[u] /\ seen'[u] = seen[u]
    BY <1>1, ReadNext, ReadShape
  <2>3. \A u \in Handlers : u # t => Replacing(u)' = Replacing(u)
    BY <2>1, <2>2
  <2>4. pc[t] \in {"was", "now", "opt"} /\ (index[t] < 3 \/ index[t] = 3)
    BY <1>1, ReadCases, Zenon
  <2>5. CASE pc[t] = "was"
    <3>1. pc'[t] \in {"was", "update"}
      BY <1>1, <2>5, ReadNext
    <3>2. ~Replacing(t) /\ ~Replacing(t)'
      BY <2>5, <3>1
    <3>3. (\A u \in Handlers : ~Replacing(u))' => \A u \in Handlers : ~Replacing(u)
      BY <2>3, <3>2
    <3> QED
      BY <2>1, <2>2, <3>1, <3>3
  <2>6. CASE pc[t] = "now"
    <3>1. pc'[t] \in {"now", "tables"} /\ seen'[t]["was"] = seen[t]["was"]
      BY <1>1, <2>6, ReadNext, ReadShape
    <3>2. Replacing(t)' = Replacing(t)
      BY <2>1, <2>6, <3>1
    <3>3. (\A u \in Handlers : ~Replacing(u))' => \A u \in Handlers : ~Replacing(u)
      BY <2>3, <3>2
    <3> QED
      BY <2>1, <2>2, <3>1, <3>3
  <2>7. CASE pc[t] = "opt"
    <3>1. CASE index[t] < 3
      <4>1. pc'[t] = "opt" /\ index'[t] = index[t] + 1
        BY <1>1, <2>7, <3>1, ReadNext
      <4>2. ~Replacing(t) /\ ~Replacing(t)'
        BY <2>7, <4>1
      <4>3. HasRead(t, "opt") => HasRead(t, "opt")'
        BY <1>1, <2>1, <2>7, <4>1, AllRead
      <4> QED
        BY <2>1, <2>2, <2>3, <2>7, <4>1, <4>2, <4>3
    <3>2. CASE index[t] = 3
      <4>1. pc'[t] = "start.decide"
        BY <1>1, <2>7, <3>2, ReadNext
      <4>2. ~Replacing(t) /\ ~Replacing(t)'
        BY <2>7, <4>1
      <4>3. HasRead(t, "opt") => seen'[t]["opt"] = Current
        BY <1>1, <2>7, <3>2, AllRead
      <4> QED
        BY <2>1, <2>2, <2>3, <2>7, <4>1, <4>2, <4>3
    <3> QED
      BY <2>4, <3>1, <3>2
  <2> QED
    BY <2>4, <2>5, <2>6, <2>7
<1>2. ASSUME NEW t \in Handlers, NEW p \in Plugins, SyncCall(t, p) PROVE ServedInv'
  BY <1>2 DEF SyncCall, Current
<1>3. ASSUME NEW t \in Handlers, SyncUpdate(t) PROVE ServedInv'
  BY <1>3 DEF SyncUpdate, Current
<1>4. ASSUME NEW t \in Handlers, SyncTables(t) PROVE ServedInv'
  BY <1>4 DEF SyncTables, Current
<1>5. ASSUME NEW t \in Handlers, SyncScript(t) PROVE ServedInv'
  BY <1>5 DEF SyncScript, Current
<1>6. ASSUME NEW t \in Handlers, SyncDiscard(t) PROVE ServedInv'
  <2>1. ~Current'.enabled
    BY <1>6 DEF SyncDiscard, Current, Settings, Off
  <2> QED
    BY <2>1
<1>7. ASSUME NEW t \in Handlers, SyncRestart(t) PROVE ServedInv'
  <2>1. seen[t]["now"] = Current /\ Current' = Current /\ core' = core
    BY <1>7 DEF SyncRestart, Current
  <2>2. \A u \in Handlers : u # t => pc'[u] = pc[u] /\ index'[u] = index[u] /\ seen'[u] = seen[u]
    BY <1>7 DEF SyncRestart
  <2>3. \A u \in Handlers : u # t => Replacing(u)' = Replacing(u)
    BY <2>1, <2>2
  <2>4. CASE Current.enabled /\ seen[t]["was"] = Current
    <3>0. ~Removable(Current, Current) /\ ~NeedsRestart(Current, Current)
      BY <2>4 DEF Removable, NeedsRestart
    <3>1. pc'[t] = "idle"
      BY <1>7, <2>1, <2>4, <3>0 DEF SyncRestart
    <3>2. ~Replacing(t) /\ ~Replacing(t)'
      BY <1>7, <2>4, <3>1 DEF SyncRestart
    <3> QED
      BY <2>1, <2>2, <2>3, <3>1, <3>2
  <2>5. CASE Current.enabled /\ seen[t]["was"] # Current
    <3>1. NeedsRestart(seen[t]["was"], Current)
      BY <2>5, DifferentSettings, SettingsType DEF Current
    <3>2. ~Removable(seen[t]["was"], Current)
      BY <2>5 DEF Removable
    <3>3. pc'[t] = "stop.decide"
      BY <1>7, <2>1, <3>1, <3>2 DEF SyncRestart
    <3>4. Replacing(t)'
      BY <3>3
    <3> QED
      BY <3>4
  <2>6. CASE ~Current.enabled
    BY <2>1, <2>6
  <2> QED
    BY <2>4, <2>5, <2>6
<1>8. ASSUME NEW t \in Handlers, SyncRemove(t) PROVE ServedInv'
  BY <1>8 DEF SyncRemove, Current
<1>9. ASSUME NEW t \in Handlers, SyncRemoveFailed(t) PROVE ServedInv'
  BY <1>9 DEF SyncRemoveFailed, Current
<1>10. ASSUME NEW t \in Handlers, ClearCall(t) PROVE ServedInv'
  BY <1>10 DEF ClearCall, Current
<1>11. ASSUME NEW t \in Handlers, StopCall(t) PROVE ServedInv'
  BY <1>11 DEF StopCall, Current
<1>12. ASSUME NEW t \in Handlers, ResetState(t) PROVE ServedInv'
  <2>1. ~Current'.enabled
    BY <1>12 DEF ResetState, Current, Settings, Off
  <2> QED
    BY <2>1
<1>13. ASSUME NEW t \in Handlers, ResetTables(t) PROVE ServedInv'
  BY <1>13 DEF ResetTables, Current
<1>14. ASSUME NEW t \in Handlers, ResetTablesFailed(t) PROVE ServedInv'
  BY <1>14 DEF ResetTablesFailed, Current
<1>15. ASSUME NEW t \in Handlers, RecreateTables(t) PROVE ServedInv'
  BY <1>15 DEF RecreateTables, Current
<1>16. ASSUME NEW t \in Handlers, StopDecide(t) PROVE ServedInv'
  <2>1. CASE ShouldStop
    <3>1. pc'[t] = "stop.enter"
      BY <1>16, <2>1 DEF StopDecide
    <3>2. Replacing(t)'
      BY <3>1
    <3> QED
      BY <3>2
  <2>2. CASE ~ShouldStop
    <3>1. core = None /\ ~startProcessing /\ core' = core /\ pc' = [pc EXCEPT ![t] = "idle"]
      BY <1>16, <2>2 DEF StopDecide, ShouldStop
    <3>2. \A u \in Handlers : pc[u] \notin {"opt", "start.decide", "start.spawn"}
      BY <3>1
    <3>3. \A u \in Handlers : pc'[u] \notin {"opt", "start.decide", "start.spawn"}
      BY <3>1, <3>2
    <3> QED
      BY <3>1, <3>3
  <2> QED
    BY <2>1, <2>2
<1>17. ASSUME NEW t \in Handlers, StopLock(t) PROVE ServedInv'
  BY <1>17 DEF StopLock, Current
<1>18. ASSUME NEW t \in Handlers, StopKill(t) PROVE ServedInv'
  BY <1>18 DEF StopKill, Current
<1>19. ASSUME NEW t \in Handlers, StopUnlock(t) PROVE ServedInv'
  BY <1>19 DEF StopUnlock, Current
<1>20. ASSUME NEW t \in Handlers, StartCall(t) PROVE ServedInv'
  BY <1>20 DEF StartCall, Current
<1>21. ASSUME NEW t \in Handlers, StartMark(t) PROVE ServedInv'
  BY <1>21 DEF StartMark, Current
<1>22. ASSUME NEW t \in Handlers, StartKeep(t) PROVE ServedInv'
  BY <1>22 DEF StartKeep, Current
<1>23. ASSUME NEW t \in Handlers, StartGiveUp(t) PROVE ServedInv'
  BY <1>23 DEF StartGiveUp, Current
<1>24. ASSUME NEW t \in Handlers, StartReplace(t) PROVE ServedInv'
  BY <1>24 DEF StartReplace, Current
<1>25. ASSUME NEW t \in Handlers, StartSpawn(t) PROVE ServedInv'
  <2>1. Current' = Current /\ seen' = seen /\ index' = index /\ pc[t] = "start.spawn"
    BY <1>25 DEF StartSpawn, Current
  <2>2. \E label \in {"start.await", "start.finish"} : pc' = [pc EXCEPT ![t] = label]
    BY <1>25 DEF StartSpawn
  <2>3. core' = core \/ core' = Configured(seen[t]["opt"])
    BY <1>25 DEF StartSpawn
  <2>4. \A u \in Handlers : Replacing(u)' = Replacing(u)
    BY <2>1, <2>2
  <2>5. ASSUME Current.enabled, seen[t]["opt"] = Current PROVE Configured(seen[t]["opt"]) = Current
    BY <2>5 DEF Configured
  <2> QED
    BY <2>1, <2>2, <2>3, <2>4, <2>5
<1>26. ASSUME NEW t \in Handlers, StartAwait(t) PROVE ServedInv'
  BY <1>26 DEF StartAwait, Current
<1>27. ASSUME NEW t \in Handlers, StartFinish(t) PROVE ServedInv'
  BY <1>27 DEF StartFinish, Current
<1>28. ASSUME NEW t \in Handlers, StartUnlock(t) PROVE ServedInv'
  BY <1>28 DEF StartUnlock, Current
<1>29. ASSUME NEW t \in Handlers, Health(t) PROVE ServedInv'
  BY <1>29 DEF Health, Current
<1>30. ASSUME CoreExit PROVE ServedInv'
  BY <1>30 DEF CoreExit, Current
<1> HIDE DEF TypeOK, kernel, manager, locals, Goto, Return, Reading, OneChanger,
             ThreadInv, StoredInv, LockInv, FlagInv, ReadInv, ServedInv, Replacing,
             Changing, Starting, Holding, HasRead
<1> QED
  BY <1>1, <1>2, <1>3, <1>4, <1>5, <1>6, <1>7, <1>8, <1>9, <1>10, <1>11,
     <1>12, <1>13, <1>14, <1>15, <1>16, <1>17, <1>18, <1>19, <1>20, <1>21,
     <1>22, <1>23, <1>24, <1>25, <1>26, <1>27, <1>28, <1>29, <1>30, <1>31
  DEF Next, SyncStep, ResetStep, LifecycleStep

-----------------------------------------------------------------------------
(* The inductive invariant.  InstallInv needs a usable nft besides.          *)

PluginInv == /\ TypeOK
             /\ ThreadInv
             /\ LockInv
             /\ FlagInv
             /\ StoredInv
             /\ ScriptInv
             /\ ReadInv
             /\ ServedInv
             /\ NftAvailable => InstallInv

\* Nothing is stored, installed or running when the agent starts.
LEMMA InitPluginInv == Init => PluginInv
<1> SUFFICES ASSUME Init PROVE PluginInv
  OBVIOUS
<1>1. /\ pc = [t \in Handlers |-> "idle"] /\ index = [t \in Handlers |-> 1]
      /\ plugin = None /\ Blank \in [Reading -> Torrents]
  BY BlankType DEF Init
<1>2. \A t \in Handlers : pc[t] \notin Changing \cup Starting \cup Holding \cup Reading
  BY <1>1, Zenon DEF Changing, Starting, Holding, Reading
<1>3. TypeOK
  <2>1. pc \in [Handlers -> Labels] /\ index \in [Handlers -> Nat]
    BY <1>1 DEF Labels
  <2> QED
    BY <1>1, <1>2, <2>1 DEF Init, TypeOK
<1>4. ThreadInv /\ LockInv /\ FlagInv
  BY <1>1, <1>2 DEF ThreadInv, LockInv, FlagInv, Changing, Holding
<1>5. StoredInv /\ ScriptInv /\ ReadInv
  BY <1>2 DEF StoredInv, ScriptInv, ReadInv, Changing
<1>6. ServedInv /\ InstallInv
  BY <1>1 DEF ServedInv, InstallInv, Current, Settings, Off
<1> QED
  BY <1>3, <1>4, <1>5, <1>6 DEF PluginInv

\* Every step keeps it.
LEMMA NextPluginInv ==
  ASSUME OneChanger, PluginInv, [Next]_vars
  PROVE  PluginInv'
<1> USE DEF PluginInv
<1>1. TypeOK' /\ ThreadInv'
  BY TypeNext, ThreadNext
<1>2. LockInv' /\ FlagInv'
  BY LockNext, FlagNext
<1>3. StoredInv' /\ ScriptInv'
  BY StoredNext, ScriptNext
<1>4. ReadInv' /\ ServedInv'
  BY CurrentNext, ServedNext
<1>5. (NftAvailable => InstallInv)'
  BY InstallNext
<1> QED
  BY <1>1, <1>2, <1>3, <1>4, <1>5

\* It holds in every reachable state.
THEOREM PluginInvariant == ASSUME OneChanger PROVE Spec => []PluginInv
<1>1. PluginInv /\ [Next]_vars => PluginInv'
  BY NextPluginInv
<1> QED
  BY <1>1, InitPluginInv, PTL DEF Spec

-----------------------------------------------------------------------------
(* The theorems.                                                           *)

\* The state and the locals of the handlers have their types, however many handlers of the
\* Panel change the plugin at a time.
THEOREM PluginTypeCorrect == Spec => []TypeOK
<1>1. Init => TypeOK /\ ThreadInv
  BY InitPluginInv DEF PluginInv
<1>2. TypeOK /\ ThreadInv /\ [Next]_vars => TypeOK' /\ ThreadInv'
  BY TypeNext, ThreadNext
<1> QED
  BY <1>1, <1>2, PTL DEF Spec

\* When nothing is under way, the sets of the kernel hold exactly the filters of the
\* stored plugin, whichever script or table failed in whichever sync before, unless the
\* Panel has emptied them since.
THEOREM StoredIsInstalledHolds ==
  ASSUME OneChanger, NftAvailable PROVE Spec => []StoredIsInstalled
<1>1. PluginInv => StoredIsInstalled
  <2> SUFFICES ASSUME PluginInv, Quiet, plugin # None, ~recreated
               PROVE  filters = Installed(plugin)
    BY DEF StoredIsInstalled
  <2>1. \A t \in Handlers : ~Installing(t)
    BY Zenon DEF Quiet, Installing
  <2> QED
    BY <2>1 DEF PluginInv, InstallInv
<1> QED
  BY <1>1, PluginInvariant, PTL

\* When nothing is under way, a running core has the settings of the stored plugin if
\* that enables the blocker, whichever starts, exits and polls came between the steps of
\* the sync that stored it.
THEOREM EnabledIsServedHolds == ASSUME OneChanger PROVE Spec => []EnabledIsServed
<1>1. PluginInv => EnabledIsServed
  <2> SUFFICES ASSUME PluginInv, Quiet, core # None, Current.enabled
               PROVE  core = Current
    BY DEF EnabledIsServed, Current
  <2>1. \A t \in Handlers : ~Replacing(t)
    BY Zenon DEF Quiet, Replacing
  <2> QED
    BY <2>1 DEF PluginInv, ServedInv
<1> QED
  BY <1>1, PluginInvariant, PTL
=============================================================================
