------------------------- MODULE ServerLauncherProofs -------------------------
(***************************************************************************)
(* Theorems about Connections and ServerLauncher, for every set of         *)
(* connections, servers, keys and configurations, and any number of        *)
(* processes and acts of the user.                                         *)
(***************************************************************************)
EXTENDS ServerLauncher, SequenceTheorems, TLAPS

-----------------------------------------------------------------------------
(* The invariant *)

\* What is saved is what was wanted, also while the program does not run.
Kept ==
  \A n \in Names \ uncertain :
    /\ GetKeys(n) = wanted[n].keys
    /\ file # Torn
    /\ file.connections[n] = wanted[n].server
    /\ up => settings.connections[n] = wanted[n].server

Asked(view) == \E r \in requests : r.kind = view

\* What is shown is of the server, and what is missing was asked for.
Own ==
  /\ \A r \in requests : r.server = client.server
  /\ \A v \in Views \ {"nodes"} : shown[v] \in {None, client.server}
  /\ shown["buckets"] # None \/ Asked("buckets")
  /\ shown["probe"] # None =>
       /\ shown["disks"] # None \/ Asked("disks")
       /\ shown["heal"] # None \/ Asked("heal")
       /\ client.server \in ClusterServers => shown["nodes"] = client.server \/ Asked("nodes")

Announced(p) == \E k \in 1 .. Len(p.channel) : p.channel[k] = "exited"

\* The child is the process started last, and what runs.
Placed == (server_running <=> child # 0) /\ child \in {0, Len(processes)}

\* An exit is announced when nobody reads any more; and unless one was awaited when a process
\* was started, none comes of those before it.
Sent ==
  \A i \in Ids :
    /\ Announced(processes[i]) => ~processes[i].reading
    /\ processes[i].state = "dropped" => ~processes[i].reading \/ "exit" \in processes[i].awaited
    /\ "exit" \notin processes[i].awaited =>
         \A k \in Ids : k < i => ~processes[k].forwarding /\ processes[k].channel = <<>>

\* The client is that of the process, to which a connection was made.
ClientIsOf(p) == client.server = p.listen

\* A timer is of a process; and unless one was awaited when the child was started, there is
\* no other than its own, after which the own connection is to it.
Timed ==
  /\ \A t \in timers : t.at \in Ids /\ t.server = processes[t.at].listen
  /\ (up /\ child # 0 /\ processes[child].timed /\ "timer" \notin processes[child].awaited) =>
       /\ \A t \in timers : t.at = child
       /\ active = OwnServer /\ timers = {} => ClientIsOf(processes[child])

IInv ==
  /\ TypeOK
  /\ Kept
  /\ up /\ ~mixed /\ client.server # None => Own
  /\ Placed /\ Sent /\ Timed

-----------------------------------------------------------------------------
(* Processes *)

\* Goes(p, q): what a step may do to a process that was started before.
Goes(p, q) ==
  /\ q.listen = p.listen /\ q.timed = p.timed /\ q.awaited = p.awaited
  /\ q.reading => p.reading
  /\ q.forwarding => p.forwarding
  /\ q.channel # <<>> => p.channel # <<>> \/ p.forwarding
  /\ Announced(q) => ~q.reading \/ Announced(p)
  /\ q.state = "dropped" => p.state = "dropped" \/ ~q.reading \/ "exit" \in q.awaited

\* A step of the process, its readers or its log.
ProcessActs(i) ==
  \/ ProcessWrites(i) \/ ProcessEnds(i) \/ ReadersEnd(i)
  \/ Forward(i) \/ StreamsEnd(i) \/ LogLine(i)

LEMMA ProcessStep ==
  ASSUME TypeOK, NEW i \in Ids, ProcessActs(i)
  PROVE  \E q \in Process :
           processes' = [processes EXCEPT ![i] = q] /\ Goes(processes[i], q)
<1> DEFINE p == processes[i]
<1>1. /\ p \in Process /\ p.written \in Nat /\ p.lines \in Nat
      /\ p.channel \in Seq({"line", "exited"})
  <2>1. p \in Process
    BY ElementOfSeq DEF TypeOK, Ids
  <2> QED BY <2>1 DEF Process
<1>2. \A v \in {"line", "exited"} :
        /\ Append(p.channel, v) \in Seq({"line", "exited"})
        /\ Len(Append(p.channel, v)) = Len(p.channel) + 1
        /\ \A k \in 1 .. Len(p.channel) : Append(p.channel, v)[k] = p.channel[k]
        /\ Append(p.channel, v)[Len(p.channel) + 1] = v
  BY <1>1, AppendProperties
<1>3. Len(p.channel) \in Nat
  BY <1>1, LenProperties
<1>4. CASE ProcessWrites(i)
  <2> DEFINE w == p.written + 1
             l == p.lines + 1
             q == [p EXCEPT !.written = w, !.lines = l]
  <2>1. processes' = [processes EXCEPT ![i] = q]
    BY <1>4 DEF ProcessWrites
  <2>2. w \in Nat /\ l \in Nat
    BY <1>1
  <2> HIDE DEF w, l, p
  <2>3. q \in Process /\ Goes(p, q)
    BY <1>1, <2>2 DEF Process, Goes, Announced
  <2> QED BY <2>1, <2>3 DEF p
<1>5. CASE ProcessEnds(i)
  <2> DEFINE q == [p EXCEPT !.state = "dead"]
  <2>1. processes' = [processes EXCEPT ![i] = q]
    BY <1>5 DEF ProcessEnds
  <2> HIDE DEF p
  <2>2. q \in Process /\ Goes(p, q)
    BY <1>1 DEF Process, Goes, Announced
  <2> QED BY <2>1, <2>2 DEF p
<1>6. CASE Forward(i)
  <2> DEFINE l == p.lines - 1
             c == Append(p.channel, "line")
             q == [p EXCEPT !.lines = l, !.channel = c]
             f == [p EXCEPT !.lines = 0, !.reading = FALSE]
  <2>1. p.lines > 0 /\ p.forwarding
    BY <1>6 DEF Forward
  <2>2. processes' = [processes EXCEPT ![i] = q] \/ processes' = [processes EXCEPT ![i] = f]
    BY <1>6 DEF Forward
  <2>3. l \in Nat
    BY <1>1, <2>1
  <2>4. c \in Seq({"line", "exited"})
    BY <1>2
  <2>5. ASSUME NEW k \in 1 .. Len(c), c[k] = "exited"
        PROVE  k \in 1 .. Len(p.channel) /\ p.channel[k] = "exited"
    BY <1>2, <1>3, <2>5
  <2> HIDE DEF l, c, p
  <2>6. q \in Process /\ Goes(p, q)
    <3>1. q \in Process
      BY <1>1, <2>3, <2>4 DEF Process
    <3>2. /\ q.channel = c /\ q.listen = p.listen /\ q.state = p.state
          /\ q.forwarding = p.forwarding /\ q.reading = p.reading
          /\ q.timed = p.timed /\ q.awaited = p.awaited
      BY <1>1 DEF Process
    <3>3. Announced(q) => Announced(p)
      BY <2>5, <3>2 DEF Announced
    <3> QED BY <2>1, <3>1, <3>2, <3>3 DEF Goes
  <2>7. f \in Process /\ Goes(p, f)
    BY <1>1 DEF Process, Goes, Announced
  <2> QED BY <2>2, <2>6, <2>7 DEF p
<1>7. CASE StreamsEnd(i)
  <2> DEFINE full == Len(p.channel) = CAP
             c == IF full THEN p.channel ELSE Append(p.channel, "exited")
             q == [p EXCEPT !.forwarding = FALSE, !.full = full, !.channel = c]
  <2>1. ~p.reading /\ p.forwarding
    BY <1>7 DEF StreamsEnd
  <2>2. processes' = [processes EXCEPT ![i] = q]
    BY <1>7 DEF StreamsEnd
  <2>3. c \in Seq({"line", "exited"}) /\ full \in BOOLEAN
    BY <1>1, <1>2
  <2> HIDE DEF p, c, full
  <2>4. q \in Process /\ Goes(p, q)
    BY <1>1, <2>1, <2>3 DEF Process, Goes
  <2> QED BY <2>2, <2>4 DEF p
<1>8. CASE LogLine(i)
  <2> DEFINE c == Tail(p.channel)
             q == [p EXCEPT !.channel = c]
  <2>1. p.channel # <<>> /\ processes' = [processes EXCEPT ![i] = q]
    BY <1>8 DEF LogLine
  <2>2. /\ c \in Seq({"line", "exited"}) /\ Len(c) = Len(p.channel) - 1
        /\ \A k \in 1 .. Len(c) : c[k] = p.channel[k + 1]
    BY <1>1, <2>1, HeadTailProperties
  <2>3. ASSUME NEW k \in 1 .. Len(c), c[k] = "exited"
        PROVE  k + 1 \in 1 .. Len(p.channel) /\ p.channel[k + 1] = "exited"
    BY <1>3, <2>2, <2>3
  <2> HIDE DEF p, c
  <2>4. q \in Process
    BY <1>1, <2>2 DEF Process
  <2>5. /\ q.channel = c /\ q.listen = p.listen /\ q.state = p.state
        /\ q.forwarding = p.forwarding /\ q.reading = p.reading
        /\ q.timed = p.timed /\ q.awaited = p.awaited
    BY <1>1 DEF Process
  <2>6. Announced(q) => Announced(p)
    BY <2>3, <2>5 DEF Announced
  <2>7. Goes(p, q)
    BY <2>1, <2>5, <2>6 DEF Goes
  <2> QED BY <2>1, <2>4, <2>7 DEF p
<1>9. CASE ReadersEnd(i)
  <2> DEFINE q == [p EXCEPT !.reading = FALSE]
  <2>1. processes' = [processes EXCEPT ![i] = q]
    BY <1>9 DEF ReadersEnd
  <2> HIDE DEF p
  <2>2. q \in Process /\ Goes(p, q)
    BY <1>1 DEF Process, Goes, Announced
  <2> QED BY <2>1, <2>2 DEF p
<1> QED BY <1>4, <1>5, <1>6, <1>7, <1>8, <1>9 DEF ProcessActs

\* DroppedShape: only the child that lives changes.
LEMMA DroppedShape ==
  ASSUME NEW ps \in Seq(Process), NEW how \in {"stopped", "dropped"}
  PROVE  /\ Dropped(ps, how) \in Seq(Process)
         /\ Len(Dropped(ps, how)) = Len(ps)
         /\ \A i \in 1 .. Len(ps) :
              Dropped(ps, how)[i] = IF i = child /\ ps[i].state = "alive"
                                      THEN [ps[i] EXCEPT !.state = how] ELSE ps[i]
<1>1. Len(ps) \in Nat /\ DOMAIN ps = 1 .. Len(ps) /\ \A i \in 1 .. Len(ps) : ps[i] \in Process
  BY LenProperties, ElementOfSeq
<1>2. \A i \in 1 .. Len(ps) : [ps[i] EXCEPT !.state = how] \in Process
  BY <1>1 DEF Process
<1>3. Dropped(ps, how) \in [1 .. Len(ps) -> Process]
  BY <1>1, <1>2 DEF Dropped
<1>4. Dropped(ps, how) \in Seq(Process) /\ Len(Dropped(ps, how)) = Len(ps)
  BY <1>1, <1>3, IsASeq, LenProperties
<1> QED BY <1>1, <1>4 DEF Dropped

\* Tails: the processes once the first message of i is taken.
LEMMA Tails ==
  ASSUME TypeOK, NEW i \in Ids, processes[i].channel # <<>>
  PROVE  /\ [processes EXCEPT ![i].channel = Tail(@)] \in Seq(Process)
         /\ Len([processes EXCEPT ![i].channel = Tail(@)]) = Len(processes)
         /\ \A k \in Ids : [processes EXCEPT ![i].channel = Tail(@)][k] =
              IF k = i THEN [processes[i] EXCEPT !.channel = Tail(@)] ELSE processes[k]
<1>1. processes \in Seq(Process) /\ processes[i] \in Process /\ i \in 1 .. Len(processes)
  BY ElementOfSeq DEF TypeOK, Ids
<1>2. Tail(processes[i].channel) \in Seq({"line", "exited"})
  BY <1>1, HeadTailProperties DEF Process
<1>3. [processes[i] EXCEPT !.channel = Tail(@)] \in Process
  BY <1>1, <1>2 DEF Process
<1> DEFINE q == [processes[i] EXCEPT !.channel = Tail(@)]
<1>4. [processes EXCEPT ![i].channel = Tail(@)] = [processes EXCEPT ![i] = q]
  OBVIOUS
<1> HIDE DEF q
<1> QED BY <1>1, <1>3, <1>4, ExceptSeq DEF q, Ids

-----------------------------------------------------------------------------
(* Types *)

StoreOK ==
  /\ up \in BOOLEAN
  /\ settings \in Settings
  /\ file \in Settings \union {Torn}
  /\ keychain \in [Names -> Pair]
  /\ wanted \in [Names -> [server: Servers \union {None}, keys: Pair]]
  /\ uncertain \subseteq Names

AppOK ==
  /\ mixed \in BOOLEAN
  /\ client \in [server: Servers \union {None}, keys: Pair]
  /\ shown \in [Views -> Servers \union {None}]
  /\ \A r \in requests : r.kind \in Views /\ r.server \in Servers \union {None}

LauncherOK ==
  /\ server_running \in BOOLEAN
  /\ server_config \in Configs
  /\ processes \in Seq(Process)
  /\ child \in 0 .. Len(processes)
  /\ \A t \in timers : t.server \in Servers

LEMMA Parts3 == TypeOK <=> StoreOK /\ AppOK /\ LauncherOK
  BY DEF TypeOK, StoreOK, AppOK, LauncherOK

LEMMA NoKeysType == NoKeys \in Pair
  BY DEF NoKeys, Pair

LEMMA GetKeysType ==
  ASSUME keychain \in [Names -> Pair], NEW n \in Names
  PROVE  GetKeys(n) \in Pair
  BY NoKeysType DEF GetKeys

LEMMA FirstConfig == NoSettings \in Settings
<1>1. (CHOOSE c \in Configs : TRUE) \in Configs
  BY SettingsAssumption
<1> QED BY <1>1 DEF NoSettings, Settings

LEMMA ConnectedType ==
  ASSUME AppOK, NEW c \in [server: Servers \union {None}, keys: Pair], NEW name,
         Connected(c, name)
  PROVE  AppOK'
<1>1. c.server \in Servers \union {None}
  OBVIOUS
<1>2. \A r \in Request({"buckets", "probe"}, c.server) :
        r.kind \in Views /\ r.server \in Servers \union {None}
  BY <1>1 DEF Request, Views
<1>3. shown' \in [Views -> Servers \union {None}]
  <2>1. \A v \in Views : Replaced(v) \in Servers \union {None}
    BY DEF Replaced, AppOK
  <2> QED BY <2>1 DEF Connected
<1> QED BY <1>2, <1>3 DEF Connected, AppOK

LEMMA NewProcessType ==
  ASSUME LauncherOK
  PROVE  NewProcess \in Process
<1>1. server_config.listen \in Servers /\ server_config.auto_connect \in BOOLEAN
  BY SettingsAssumption DEF LauncherOK
<1>2. Awaited \in SUBSET {"exit", "timer"}
  BY DEF Awaited
<1> HIDE DEF Awaited
<1> QED BY <1>1, <1>2, EmptySeq DEF NewProcess, Process

LEMMA StartType ==
  ASSUME TypeOK, NEW cut, StartServer(cut)
  PROVE  LauncherOK' /\ Len(processes') = Len(processes) + 1
<1>1. LauncherOK
  BY Parts3
<1> DEFINE ps == Dropped(processes, "dropped")
<1>2. ps \in Seq(Process) /\ Len(ps) = Len(processes) /\ Len(processes) \in Nat
  BY <1>1, DroppedShape, LenProperties DEF LauncherOK
<1>3. server_config.listen \in Servers
  BY <1>1, SettingsAssumption DEF LauncherOK
<1>4. NewProcess \in Process
  BY <1>1, NewProcessType
<1>5. /\ processes' = Append(ps, NewProcess) /\ child' = Len(processes')
      /\ server_running' = TRUE /\ UNCHANGED server_config
  BY DEF StartServer
<1> HIDE DEF ps
<1>6. processes' \in Seq(Process) /\ Len(processes') = Len(processes) + 1
  BY <1>2, <1>4, <1>5, AppendProperties
<1>7. \A t \in timers' : t.server \in Servers
  BY <1>1, <1>3 DEF StartServer, LauncherOK
<1> QED BY <1>1, <1>2, <1>5, <1>6, <1>7 DEF LauncherOK

LEMMA InitType == Init => TypeOK
<1> SUFFICES ASSUME Init PROVE TypeOK
  OBVIOUS
<1>1. PICK first \in FirstSettings :
        /\ file = [connections |-> first.connections, server |-> first.server]
        /\ keychain = first.keychain
  BY DEF Init
<1>2. file \in Settings /\ settings \in Settings /\ keychain \in [Names -> Pair]
  BY <1>1, SettingsAssumption DEF Init
<1>3. \A n \in Names : ClientFor(n) \in [server: Servers \union {None}, keys: Pair]
  BY <1>2, GetKeysType DEF ClientFor, Settings
<1>4. StoreOK
  BY <1>2, <1>3 DEF Init, StoreOK
<1>5. AppOK
  BY NoKeysType DEF Init, AppOK, Nothing
<1>6. LauncherOK
  <2>1. server_config \in Configs
    BY <1>2 DEF Init, Settings
  <2>2. processes \in Seq(Process) /\ child \in 0 .. Len(processes)
    BY EmptySeq DEF Init
  <2> QED BY <2>1, <2>2 DEF Init, LauncherOK
<1> QED BY <1>4, <1>5, <1>6, Parts3

\* SaveType: the file after saving.
LEMMA SaveType ==
  ASSUME NEW new \in Settings, file \in Settings \union {Torn}, NEW cut, Save(new, cut)
  PROVE  file' \in Settings \union {Torn}
  BY DEF Save

LEMMA StepStoreType == TypeOK /\ [Next]_vars => StoreOK'
<1> SUFFICES ASSUME TypeOK, [Next]_vars PROVE StoreOK'
  OBVIOUS
<1>1. StoreOK /\ LauncherOK
  BY Parts3
<1>2. ASSUME UNCHANGED storeVars, up' \in BOOLEAN PROVE StoreOK'
  BY <1>1, <1>2 DEF StoreOK, storeVars
<1>3. ASSUME NEW cut, GoesOn(cut) PROVE up' \in BOOLEAN
  BY <1>3 DEF GoesOn
<1>4. ASSUME NEW n \in Names, NEW server \in Servers, NEW k \in Keys \union {None}, NEW cut,
             AddConnection(n, server, k, cut)
      PROVE  StoreOK'
  <2> DEFINE new == IF cut \in {"access", "secret"} THEN settings
                    ELSE [settings EXCEPT !.connections[n] = server]
  <2>1. new \in Settings
    BY <1>1 DEF StoreOK, Settings
  <2>2. settings' = new /\ (Save(new, cut) \/ UNCHANGED file) /\ up' \in BOOLEAN
    BY <1>3, <1>4 DEF AddConnection
  <2>3. keychain' \in [Names -> Pair]
    <3>1. StoreKeys(n, k, cut) \in [Names -> Pair]
      BY <1>1 DEF StoreKeys, StoreOK, Pair
    <3> QED BY <1>1, <1>4, <3>1 DEF AddConnection, StoreOK
  <2> HIDE DEF new
  <2>4. file' \in Settings \union {Torn}
    BY <1>1, <2>1, <2>2, SaveType DEF StoreOK
  <2>5. wanted' \in [Names -> [server: Servers \union {None}, keys: Pair]]
    <3> DEFINE w == IF cut # "none" THEN wanted[n]
                    ELSE [server |-> server,
                          keys |-> IF k = None THEN wanted[n].keys
                                   ELSE [access |-> k, secret |-> k]]
    <3>1. w \in [server: Servers \union {None}, keys: Pair]
      BY <1>1 DEF StoreOK, Pair
    <3>2. wanted' = [wanted EXCEPT ![n] = w]
      BY <1>4 DEF AddConnection
    <3> HIDE DEF w
    <3> QED BY <1>1, <3>1, <3>2 DEF StoreOK
  <2>6. uncertain' \subseteq Names
    BY <1>1, <1>4 DEF AddConnection, StoreOK
  <2> QED BY <2>1, <2>2, <2>3, <2>4, <2>5, <2>6 DEF StoreOK
<1>5. ASSUME NEW n \in Names, NEW k, NEW cut, RemoveConnection(n, k, cut) PROVE StoreOK'
  <2> DEFINE new == [settings EXCEPT !.connections[n] = None]
  <2>1. new \in Settings
    BY <1>1 DEF StoreOK, Settings
  <2>2. settings' = new /\ Save(new, cut) /\ up' \in BOOLEAN
    BY <1>3, <1>5 DEF RemoveConnection
  <2>3. keychain' \in [Names -> Pair]
    <3>1. DeleteKeys(n, k) \in [Names -> Pair]
      BY <1>1, NoKeysType DEF DeleteKeys, StoreOK, Pair
    <3> QED BY <1>5, <3>1 DEF RemoveConnection
  <2> HIDE DEF new
  <2>4. file' \in Settings \union {Torn}
    BY <1>1, <2>1, <2>2, SaveType DEF StoreOK
  <2>5. wanted' \in [Names -> [server: Servers \union {None}, keys: Pair]]
    BY <1>1, <1>5, NoKeysType DEF RemoveConnection, StoreOK
  <2>6. uncertain' \subseteq Names
    BY <1>1, <1>5 DEF RemoveConnection, StoreOK
  <2> QED BY <2>1, <2>2, <2>3, <2>4, <2>5, <2>6 DEF StoreOK
<1>6. ASSUME NEW cut, StartServer(cut) \/ ServerSaveConfig(cut) PROVE StoreOK'
  <2> DEFINE new == [settings EXCEPT !.server = server_config]
  <2>1. new \in Settings
    BY <1>1 DEF StoreOK, LauncherOK, Settings
  <2>2. /\ settings' = new /\ Save(new, cut) /\ up' \in BOOLEAN
        /\ UNCHANGED <<keychain, wanted>>
        /\ uncertain' \in {Names, uncertain}
    BY <1>3, <1>6 DEF StartServer, ServerSaveConfig
  <2> HIDE DEF new
  <2>3. file' \in Settings \union {Torn}
    BY <1>1, <2>1, <2>2, SaveType DEF StoreOK
  <2> QED BY <1>1, <2>1, <2>2, <2>3 DEF StoreOK
<1>7. CASE Launch
  <2>1. settings' \in Settings
    BY <1>1, <1>7, FirstConfig DEF Launch, Load, StoreOK
  <2> QED BY <1>1, <1>7, <2>1 DEF Launch, StoreOK
<1>8. ASSUME NEW n, ConnectTo(n) PROVE StoreOK'
  BY <1>1, <1>2, <1>8 DEF ConnectTo, StoreOK
<1>9. ASSUME NEW v, Refresh(v) PROVE StoreOK'
  BY <1>1, <1>2, <1>9 DEF Refresh, StoreOK
<1>10. ASSUME NEW c, ConfigChanged(c) PROVE StoreOK'
  BY <1>1, <1>2, <1>10 DEF ConfigChanged, StoreOK
<1>11. CASE StopServer \/ Quit
  BY <1>1, <1>2, <1>11 DEF StopServer, Quit, StoreOK
<1>12. ASSUME NEW r, Answer(r) PROVE StoreOK'
  BY <1>1, <1>2, <1>12 DEF Answer, StoreOK
<1>13. ASSUME NEW i, ProcessActs(i) \/ ServerExited(i)
       PROVE  StoreOK'
  BY <1>1, <1>2, <1>13 DEF ProcessActs, ProcessWrites, ProcessEnds, ReadersEnd,
                           Forward, StreamsEnd, LogLine,
                           ServerExited, connectionVars, StoreOK
<1>14. ASSUME NEW t, AutoConnect(t) PROVE StoreOK'
  BY <1>1, <1>2, <1>14 DEF AutoConnect, StoreOK
<1>15. CASE UNCHANGED vars
  BY <1>1, <1>2, <1>15 DEF vars, connectionVars, StoreOK
<1> QED BY <1>4, <1>5, <1>6, <1>7, <1>8, <1>9, <1>10, <1>11, <1>12, <1>13, <1>14, <1>15
        DEF Next, User, System, ProcessActs

LEMMA StepAppType == TypeOK /\ [Next]_vars => AppOK'
<1> SUFFICES ASSUME TypeOK, [Next]_vars PROVE AppOK'
  OBVIOUS
<1>1. StoreOK /\ AppOK /\ LauncherOK
  BY Parts3
<1>2. ASSUME UNCHANGED <<client, shown, requests, mixed>> PROVE AppOK'
  BY <1>1, <1>2 DEF AppOK
<1>3. ASSUME NEW n \in Names, ConnectTo(n) PROVE AppOK'
  <2>1. ClientFor(n) \in [server: Servers \union {None}, keys: Pair]
    BY <1>1, GetKeysType DEF ClientFor, StoreOK, Settings
  <2> QED BY <1>1, <1>3, <2>1, ConnectedType DEF ConnectTo
<1>4. ASSUME NEW kinds \in SUBSET Views
      PROVE  \A r \in Request(kinds, client.server) :
               r.kind \in Views /\ r.server \in Servers \union {None}
  BY <1>1 DEF Request, AppOK
<1>5. ASSUME NEW v \in Views, Refresh(v) PROVE AppOK'
  <2>1. requests' = requests \union Request({v}, client.server)
    BY <1>5 DEF Refresh
  <2>2. UNCHANGED <<client, shown, mixed>>
    BY <1>5 DEF Refresh
  <2> QED BY <1>1, <1>4, <2>1, <2>2 DEF AppOK
<1>6. ASSUME NEW r \in requests, Answer(r) PROVE AppOK'
  <2>1. UNCHANGED <<client, mixed>>
    BY <1>6 DEF Answer
  <2>2. r.kind \in Views /\ r.server \in Servers \union {None}
    BY <1>1 DEF AppOK
  <2>3. CASE AbixioDetected(r)
    <3>1. PICK server \in {None} \union ({r.server} \intersect AbixioServers),
               kinds \in SUBSET {"disks", "heal", "nodes"} :
            /\ shown' = [shown EXCEPT !["probe"] = server]
            /\ requests' = (requests \ {r}) \union Request(kinds, client.server)
      BY <2>3 DEF AbixioDetected
    <3>2. kinds \in SUBSET Views
      BY DEF Views
    <3> QED BY <1>1, <1>4, <2>1, <2>2, <3>1, <3>2 DEF AppOK
  <2>4. CASE Loaded(r)
    BY <1>1, <2>1, <2>2, <2>4 DEF Loaded, AppOK
  <2> QED BY <1>6, <2>3, <2>4 DEF Answer
<1>7. ASSUME NEW t \in timers, AutoConnect(t) PROVE AppOK'
  <2>1. [server |-> t.server, keys |-> NoKeys] \in [server: Servers \union {None}, keys: Pair]
    BY <1>1, NoKeysType DEF LauncherOK
  <2> QED BY <1>1, <1>2, <1>7, <2>1, ConnectedType DEF AutoConnect, appVars
<1>8. CASE Launch
  BY <1>1, <1>8, NoKeysType DEF Launch, Nothing, AppOK
<1>9. ASSUME NEW n, NEW server, NEW k, NEW cut,
             AddConnection(n, server, k, cut) \/ RemoveConnection(n, k, cut)
      PROVE  AppOK'
  BY <1>2, <1>9 DEF AddConnection, RemoveConnection, appVars
<1>10. ASSUME NEW cut, StartServer(cut) \/ ServerSaveConfig(cut) PROVE AppOK'
  BY <1>2, <1>10 DEF StartServer, ServerSaveConfig, appVars
<1>11. ASSUME NEW c, ConfigChanged(c) \/ StopServer \/ Quit PROVE AppOK'
  BY <1>2, <1>11 DEF ConfigChanged, StopServer, Quit, appVars
<1>12. ASSUME NEW i, ProcessActs(i) \/ ServerExited(i)
       PROVE  AppOK'
  BY <1>2, <1>12 DEF ProcessActs, ProcessWrites, ProcessEnds, ReadersEnd,
                     Forward, StreamsEnd, LogLine,
                     ServerExited, connectionVars, appVars
<1>13. CASE UNCHANGED vars
  BY <1>2, <1>13 DEF vars, connectionVars, appVars
<1> QED BY <1>3, <1>5, <1>6, <1>7, <1>8, <1>9, <1>10, <1>11, <1>12, <1>13
        DEF Next, User, System, ProcessActs

LEMMA StepLauncherType == TypeOK /\ [Next]_vars => LauncherOK'
<1> SUFFICES ASSUME TypeOK, [Next]_vars PROVE LauncherOK'
  OBVIOUS
<1>1. StoreOK /\ LauncherOK /\ Len(processes) \in Nat
  BY Parts3, LenProperties DEF LauncherOK
<1>2. ASSUME UNCHANGED launcherVars PROVE LauncherOK'
  BY <1>1, <1>2 DEF LauncherOK, launcherVars
<1>3. ASSUME NEW c \in Configs, ConfigChanged(c) PROVE LauncherOK'
  BY <1>1, <1>3 DEF ConfigChanged, LauncherOK
<1>4. ASSUME NEW ps \in Seq(Process), Len(ps) = Len(processes), processes' = ps,
             child' \in {child, 0}, server_running' \in BOOLEAN,
             UNCHANGED <<server_config, timers>>
      PROVE  LauncherOK'
  BY <1>1, <1>4 DEF LauncherOK
<1>5. CASE StopServer
  BY <1>1, <1>4, <1>5, DroppedShape DEF StopServer, LauncherOK
<1>6. CASE Quit
  BY <1>1, <1>4, <1>6, DroppedShape DEF Quit, LauncherOK
<1>7. ASSUME NEW i \in Ids, ProcessActs(i) PROVE LauncherOK'
  <2>1. PICK q \in Process : processes' = [processes EXCEPT ![i] = q]
    BY <1>7, ProcessStep
  <2>2. processes' \in Seq(Process) /\ Len(processes') = Len(processes)
    BY <1>1, <2>1, ExceptSeq DEF LauncherOK, Ids
  <2>3. UNCHANGED <<server_config, server_running, child, timers>>
    BY <1>7 DEF ProcessActs, ProcessWrites, ProcessEnds, ReadersEnd, Forward, StreamsEnd,
                LogLine
  <2> QED BY <1>1, <2>2, <2>3 DEF LauncherOK
<1>8. ASSUME NEW i \in Ids, ServerExited(i) PROVE LauncherOK'
  <2> DEFINE ps == [processes EXCEPT ![i].channel = Tail(@)]
  <2>1. ps \in Seq(Process) /\ Len(ps) = Len(processes)
    BY <1>8, Tails DEF ServerExited
  <2>2. processes' = Dropped(ps, "dropped")
    BY <1>8 DEF ServerExited
  <2> HIDE DEF ps
  <2>3. processes' \in Seq(Process) /\ Len(processes') = Len(processes)
    BY <2>1, <2>2, DroppedShape
  <2>4. child' \in 0 .. Len(processes')
    BY <1>1, <1>8, <2>3 DEF ServerExited
  <2> QED BY <1>1, <1>8, <2>3, <2>4 DEF ServerExited, LauncherOK
<1>9. ASSUME NEW t \in timers, AutoConnect(t) PROVE LauncherOK'
  BY <1>1, <1>9 DEF AutoConnect, LauncherOK
<1>10. CASE Launch
  <2>1. settings' \in Settings
    BY <1>1, <1>10, FirstConfig DEF Launch, Load, StoreOK
  <2>2. \A i \in Ids : [processes[i] EXCEPT !.reading = FALSE, !.lines = 0, !.forwarding = FALSE,
                                          !.channel = <<>>] \in Process
    <3>1. \A i \in Ids : processes[i] \in Process
      BY <1>1, ElementOfSeq DEF LauncherOK, Ids
    <3>2. <<>> \in Seq({"line", "exited"})
      BY EmptySeq
    <3> QED BY <3>1, <3>2 DEF Process
  <2>3. processes' \in [1 .. Len(processes) -> Process]
    BY <1>10, <2>2 DEF Launch, Ids
  <2>4. processes' \in Seq(Process) /\ Len(processes') = Len(processes)
    BY <1>1, <2>3, IsASeq, LenProperties
  <2>5. server_config' \in Configs
    BY <1>10, <2>1 DEF Launch, Settings
  <2>6. child' \in 0 .. Len(processes')
    <3>1. child' = 0
      BY <1>10 DEF Launch
    <3> QED BY <1>1, <2>4, <3>1
  <2> QED BY <1>1, <1>10, <2>4, <2>5, <2>6 DEF Launch, LauncherOK
<1>11. ASSUME NEW cut, StartServer(cut) PROVE LauncherOK'
  BY <1>11, StartType
<1>12. ASSUME NEW cut, ServerSaveConfig(cut) PROVE LauncherOK'
  BY <1>2, <1>12 DEF ServerSaveConfig
<1>13. CASE UNCHANGED vars
  BY <1>2, <1>13 DEF vars
<1> QED BY <1>2, <1>3, <1>5, <1>6, <1>7, <1>8, <1>9, <1>10, <1>11, <1>12, <1>13
        DEF Next, User, System, ProcessActs

LEMMA StepType == TypeOK /\ [Next]_vars => TypeOK'
<1> SUFFICES ASSUME TypeOK, [Next]_vars PROVE TypeOK'
  OBVIOUS
<1>1. StoreOK' /\ AppOK' /\ LauncherOK'
  BY StepStoreType, StepAppType, StepLauncherType
<1> QED BY <1>1 DEF TypeOK, StoreOK, AppOK, LauncherOK

-----------------------------------------------------------------------------
(* What is saved *)

LEMMA KeptFrame ==
  ASSUME Kept, UNCHANGED storeVars, up' => up
  PROVE  Kept'
  BY DEF Kept, GetKeys, storeVars

\* KeyChange: a name whose entries are left has its keys.
LEMMA KeyChange ==
  ASSUME NEW n \in Names, keychain'[n] = keychain[n]
  PROVE  GetKeys(n)' = GetKeys(n)
  BY DEF GetKeys

LEMMA AddKept ==
  ASSUME TypeOK, Kept, NEW n \in Names, NEW server \in Servers, NEW k \in Keys \union {None},
         NEW cut \in {"none", "access", "secret", "open", "write"},
         AddConnection(n, server, k, cut)
  PROVE  Kept'
<1>1. up /\ StoreOK
  BY Parts3 DEF AddConnection, Act
<1> DEFINE new == [settings EXCEPT !.connections[n] = server]
<1>2. /\ new \in Settings /\ new.connections[n] = server
      /\ \A m \in Names \ {n} : new.connections[m] = settings.connections[m]
  BY <1>1 DEF StoreOK, Settings
<1>3. \A m \in Names \ {n} : GetKeys(m)' = GetKeys(m) /\ wanted'[m] = wanted[m]
  <2>1. \A m \in Names \ {n} : keychain'[m] = keychain[m]
    BY <1>1 DEF AddConnection, StoreKeys, StoreOK
  <2>2. \A m \in Names \ {n} : wanted'[m] = wanted[m]
    BY <1>1 DEF AddConnection, StoreOK
  <2> QED BY <2>1, <2>2, KeyChange
<1>4. new # Torn
  BY <1>2, SettingsAssumption
<1> HIDE DEF new
<1>5. CASE cut = "write"
  BY <1>5 DEF AddConnection, Kept
<1>6. CASE cut \in {"access", "secret"}
  <2>1. UNCHANGED <<settings, file>> /\ uncertain' = uncertain \union {n}
    BY <1>6 DEF AddConnection
  <2> QED BY <1>1, <1>3, <2>1 DEF Kept
<1>7. CASE cut = "open"
  <2>1. settings' = new /\ UNCHANGED file /\ uncertain' = uncertain \union {n}
    BY <1>7 DEF AddConnection, Save, new
  <2> QED BY <1>1, <1>2, <1>3, <2>1 DEF Kept
<1>8. CASE cut = "none"
  <2>1. settings' = new /\ file' = new
    BY <1>8 DEF AddConnection, Save, new
  <2>2. uncertain' = IF k = None THEN uncertain ELSE uncertain \ {n}
    BY <1>8 DEF AddConnection
  <2>3. ASSUME NEW m \in Names \ uncertain', m # n
        PROVE  /\ GetKeys(m)' = wanted'[m].keys
               /\ new.connections[m] = wanted'[m].server
    BY <1>1, <1>2, <1>3, <2>2, <2>3 DEF Kept
  <2>4. wanted'[n].server = server
    BY <1>1, <1>8 DEF AddConnection, StoreOK
  <2>5. n \notin uncertain' => GetKeys(n)' = wanted'[n].keys
    <3>1. CASE k = None
      <4>1. wanted'[n].keys = wanted[n].keys /\ keychain' = keychain
        BY <1>1, <1>8, <3>1 DEF AddConnection, StoreOK
      <4> QED BY <2>2, <3>1, <4>1, KeyChange DEF Kept
    <3>2. CASE k # None
      <4>1. wanted'[n].keys = [access |-> k, secret |-> k]
        BY <1>1, <1>8, <3>2 DEF AddConnection, StoreOK
      <4>2. keychain'[n] = [access |-> k, secret |-> k]
        BY <1>1, <1>8, <3>2 DEF AddConnection, StoreKeys, StoreOK
      <4> QED BY <3>2, <4>1, <4>2 DEF GetKeys
    <3> QED BY <3>1, <3>2
  <2> QED BY <1>2, <1>4, <2>1, <2>3, <2>4, <2>5 DEF Kept
<1> QED BY <1>5, <1>6, <1>7, <1>8

LEMMA RemoveKept ==
  ASSUME TypeOK, Kept, NEW n \in Names, NEW k \in {"none", "access", "secret"},
         NEW cut \in {"none", "open", "write"}, RemoveConnection(n, k, cut)
  PROVE  Kept'
<1>1. up /\ StoreOK
  BY Parts3 DEF RemoveConnection, Act
<1> DEFINE new == [settings EXCEPT !.connections[n] = None]
<1>2. /\ new \in Settings /\ new.connections[n] = None
      /\ \A m \in Names \ {n} : new.connections[m] = settings.connections[m]
  BY <1>1 DEF StoreOK, Settings
<1>3. \A m \in Names \ {n} : GetKeys(m)' = GetKeys(m) /\ wanted'[m] = wanted[m]
  <2>1. \A m \in Names \ {n} : keychain'[m] = keychain[m]
    BY <1>1 DEF RemoveConnection, DeleteKeys, StoreOK
  <2>2. \A m \in Names \ {n} : wanted'[m] = wanted[m]
    BY <1>1 DEF RemoveConnection, StoreOK
  <2> QED BY <2>1, <2>2, KeyChange
<1>4. new # Torn
  BY <1>2, SettingsAssumption
<1>5. settings' = new
  BY DEF RemoveConnection
<1>6. file' = IF cut = "none" THEN new ELSE IF cut = "open" THEN file ELSE Torn
  BY DEF RemoveConnection, Save
<1> HIDE DEF new
<1>7. CASE cut = "write"
  BY <1>7 DEF RemoveConnection, Kept
<1>8. CASE cut = "open"
  <2>1. uncertain' = uncertain \union {n}
    BY <1>8 DEF RemoveConnection
  <2> QED BY <1>1, <1>2, <1>3, <1>5, <1>6, <1>8, <2>1 DEF Kept
<1>9. CASE cut = "none" /\ k # "none"
  <2>1. uncertain' = uncertain \union {n}
    BY <1>9 DEF RemoveConnection
  <2> QED BY <1>1, <1>2, <1>3, <1>4, <1>5, <1>6, <1>9, <2>1 DEF Kept
<1>10. CASE cut = "none" /\ k = "none"
  <2>1. uncertain' = uncertain \ {n}
    BY <1>10 DEF RemoveConnection
  <2>2. wanted'[n] = [server |-> None, keys |-> NoKeys]
    BY <1>1 DEF RemoveConnection, StoreOK
  <2>3. keychain'[n] = NoKeys
    BY <1>1, <1>10 DEF RemoveConnection, DeleteKeys, StoreOK
  <2>4. GetKeys(n)' = NoKeys
    BY <2>3 DEF GetKeys, NoKeys
  <2> QED BY <1>1, <1>2, <1>3, <1>4, <1>5, <1>6, <1>10, <2>1, <2>2, <2>4 DEF Kept
<1> QED BY <1>7, <1>8, <1>9, <1>10

LEMMA ConfigKept ==
  ASSUME TypeOK, Kept, NEW cut, StartServer(cut) \/ ServerSaveConfig(cut)
  PROVE  Kept'
<1>1. up /\ StoreOK /\ LauncherOK
  BY Parts3 DEF StartServer, ServerSaveConfig, Act
<1> DEFINE new == [settings EXCEPT !.server = server_config]
<1>2. new \in Settings /\ new.connections = settings.connections
  BY <1>1 DEF StoreOK, LauncherOK, Settings
<1>3. /\ settings' = new /\ UNCHANGED <<keychain, wanted>>
      /\ file' \in {new, file} \/ cut = "write"
      /\ uncertain' = IF cut = "write" THEN Names ELSE uncertain
  BY DEF StartServer, ServerSaveConfig, Save
<1>4. new # Torn
  BY <1>2, SettingsAssumption
<1> HIDE DEF new
<1> QED BY <1>1, <1>2, <1>3, <1>4 DEF Kept, GetKeys

LEMMA StepKept == TypeOK /\ Kept /\ [Next]_vars => Kept'
<1> SUFFICES ASSUME TypeOK, Kept, [Next]_vars PROVE Kept'
  OBVIOUS
<1>1. ASSUME NEW n, ConnectTo(n) PROVE Kept'
  BY <1>1, KeptFrame DEF ConnectTo
<1>2. ASSUME NEW v, Refresh(v) PROVE Kept'
  BY <1>2, KeptFrame DEF Refresh
<1>3. ASSUME NEW c, ConfigChanged(c) PROVE Kept'
  BY <1>3, KeptFrame DEF ConfigChanged
<1>4. CASE StopServer \/ Quit
  BY <1>4, KeptFrame DEF StopServer, Quit
<1>5. CASE Launch
  BY <1>5 DEF Launch, Load, Kept, GetKeys
<1>6. ASSUME NEW r, Answer(r) PROVE Kept'
  BY <1>6, KeptFrame DEF Answer
<1>7. ASSUME NEW i, ProcessActs(i) \/ ServerExited(i)
      PROVE  Kept'
  BY <1>7, KeptFrame DEF ProcessActs, ProcessWrites, ProcessEnds, ReadersEnd,
                         Forward, StreamsEnd, LogLine,
                         ServerExited, connectionVars
<1>8. ASSUME NEW t, AutoConnect(t) PROVE Kept'
  BY <1>8, KeptFrame DEF AutoConnect
<1>9. CASE UNCHANGED vars
  BY <1>9, KeptFrame DEF vars, connectionVars
<1> QED BY <1>1, <1>2, <1>3, <1>4, <1>5, <1>6, <1>7, <1>8, <1>9, AddKept, RemoveKept,
           ConfigKept DEF Next, User, System, ProcessActs

-----------------------------------------------------------------------------
(* What is shown *)

Shows == up /\ ~mixed /\ client.server # None => Own

LEMMA ShowsFrame ==
  ASSUME Shows, UNCHANGED <<client, shown, requests, mixed>>, up' => up
  PROVE  Shows'
  BY DEF Shows, Own, Asked

\* RequestOf: one for each kind, of the server.
LEMMA RequestOf ==
  ASSUME NEW kinds, NEW server
  PROVE  /\ \A r \in Request(kinds, server) : r.server = server
         /\ \A k \in kinds : \E r \in Request(kinds, server) : r.kind = k
<1>1. ASSUME NEW k \in kinds PROVE \E r \in Request(kinds, server) : r.kind = k
  <2>1. [kind |-> k, server |-> server, at |-> acts] \in Request(kinds, server)
    BY DEF Request
  <2> QED BY <2>1
<1> QED BY <1>1 DEF Request

LEMMA ConnectedShows ==
  ASSUME NEW c, NEW name, Connected(c, name)
  PROVE  Shows'
<1> SUFFICES ASSUME ~mixed' PROVE Own'
  BY DEF Shows
<1>1. requests' = Request({"buckets", "probe"}, c.server) /\ client' = c
  BY DEF Connected
<1>2. \A v \in Views \ {"nodes"} : shown'[v] = None
  BY DEF Connected, Replaced
<1>3. Asked("buckets")' /\ \A r \in requests' : r.server = c.server
  BY <1>1, RequestOf DEF Asked
<1> QED BY <1>1, <1>2, <1>3 DEF Own, Views

LEMMA RefreshShows ==
  ASSUME Shows, NEW v, Refresh(v)
  PROVE  Shows'
<1>1. /\ requests' = requests \union Request({v}, client.server)
      /\ UNCHANGED <<client, shown, mixed, up>>
  BY DEF Refresh
<1>2. \A r \in Request({v}, client.server) : r.server = client.server
  BY DEF Request
<1>3. \A w : Asked(w) => Asked(w)'
  BY <1>1 DEF Asked
<1> QED BY <1>1, <1>2, <1>3 DEF Shows, Own

LEMMA DetectedShows ==
  ASSUME TypeOK, Own, NEW r \in requests, client.server # None, AbixioDetected(r),
         UNCHANGED client
  PROVE  Own'
<1>1. AppOK
  BY Parts3
<1>2. PICK server \in {None} \union ({r.server} \intersect AbixioServers) :
        /\ shown' = [shown EXCEPT !["probe"] = server]
        /\ requests' = (requests \ {r}) \union
             Request({v \in {"disks", "heal", "nodes"} :
                        server # None /\ (v = "nodes" => server \in ClusterServers)},
                     client.server)
  BY DEF AbixioDetected
<1>3. r.server = client.server /\ r.kind = "probe"
  BY DEF Own, AbixioDetected
<1>4. \A q \in requests' : q.server = client.server
  BY <1>2 DEF Own, Request
<1>5. \A w \in Views : shown'[w] = IF w = "probe" THEN server ELSE shown[w]
  BY <1>1, <1>2 DEF AppOK
<1>6. Asked("buckets") => Asked("buckets")'
  BY <1>2, <1>3 DEF Asked
<1>7. ASSUME server # None
      PROVE  /\ Asked("disks")' /\ Asked("heal")'
             /\ client.server \in ClusterServers => Asked("nodes")'
  <2>1. server = client.server
    BY <1>3, <1>7
  <2> DEFINE kinds == {v \in {"disks", "heal", "nodes"} :
                         server # None /\ (v = "nodes" => server \in ClusterServers)}
  <2>2. \A v \in kinds : \E q \in requests' : q.kind = v
    <3>1. Request(kinds, client.server) \subseteq requests'
      BY <1>2
    <3> HIDE DEF kinds
    <3> QED BY <3>1, RequestOf
  <2>3. /\ "disks" \in kinds /\ "heal" \in kinds
        /\ client.server \in ClusterServers => "nodes" \in kinds
    BY <1>7, <2>1
  <2> HIDE DEF kinds
  <2> QED BY <2>2, <2>3 DEF Asked
<1>8. shown'["probe"] = server /\ shown'["buckets"] = shown["buckets"]
  BY <1>5 DEF Views
<1>9. \A v \in Views \ {"nodes"} : shown'[v] \in {None, client.server}
  BY <1>3, <1>5 DEF Own
<1> QED BY <1>4, <1>6, <1>7, <1>8, <1>9 DEF Own

LEMMA LoadedShows ==
  ASSUME TypeOK, Own, NEW r \in requests, client.server # None, Loaded(r), UNCHANGED client
  PROVE  Own'
<1>1. AppOK
  BY Parts3
<1>2. r.server = client.server /\ r.kind \in Views /\ r.kind # "probe"
  BY <1>1 DEF Own, Loaded, AppOK
<1>3. \A w \in Views : shown'[w] = IF w = r.kind THEN client.server ELSE shown[w]
  BY <1>1, <1>2 DEF AppOK, Loaded
<1>4. \A w : w # r.kind /\ Asked(w) => Asked(w)'
  BY DEF Asked, Loaded
<1>5. \A q \in requests' : q.server = client.server
  BY DEF Own, Loaded
<1>6. \A v \in Views \ {"nodes"} : shown'[v] \in {None, client.server}
  BY <1>3 DEF Own
<1>7. \A v \in {"buckets", "disks", "heal"} :
        shown[v] # None \/ Asked(v) => shown'[v] # None \/ Asked(v)'
  BY <1>3, <1>4 DEF Views
<1>8. shown["nodes"] = client.server \/ Asked("nodes")
        => shown'["nodes"] = client.server \/ Asked("nodes")'
  BY <1>3, <1>4 DEF Views
<1>9. shown'["probe"] = shown["probe"]
  BY <1>2, <1>3 DEF Views
<1> QED BY <1>5, <1>6, <1>7, <1>8, <1>9 DEF Own

LEMMA StepShows == TypeOK /\ Shows /\ [Next]_vars => Shows'
<1> SUFFICES ASSUME TypeOK, Shows, [Next]_vars PROVE Shows'
  OBVIOUS
<1>1. ASSUME NEW n, ConnectTo(n) PROVE Shows'
  BY <1>1, ConnectedShows DEF ConnectTo
<1>2. ASSUME NEW v, Refresh(v) PROVE Shows'
  BY <1>2, RefreshShows
<1>3. ASSUME NEW r \in requests, Answer(r) PROVE Shows'
  <2>1. UNCHANGED <<client, mixed, up>> /\ (AbixioDetected(r) \/ Loaded(r))
    BY <1>3 DEF Answer
  <2> QED BY <2>1, DetectedShows, LoadedShows DEF Shows
<1>4. ASSUME NEW t, AutoConnect(t) PROVE Shows'
  <2>1. CASE server_running
    BY <1>4, <2>1, ConnectedShows DEF AutoConnect
  <2>2. CASE ~server_running
    BY <1>4, <2>2, ShowsFrame DEF AutoConnect, appVars
  <2> QED BY <2>1, <2>2
<1>5. CASE Launch
  BY <1>5 DEF Launch, Shows
<1>6. ASSUME NEW n, NEW server, NEW k, NEW cut,
             AddConnection(n, server, k, cut) \/ RemoveConnection(n, k, cut)
      PROVE  Shows'
  BY <1>6, ShowsFrame DEF AddConnection, RemoveConnection, appVars, Act
<1>7. ASSUME NEW cut, StartServer(cut) \/ ServerSaveConfig(cut) PROVE Shows'
  BY <1>7, ShowsFrame DEF StartServer, ServerSaveConfig, appVars, Act
<1>8. ASSUME NEW c, ConfigChanged(c) \/ StopServer \/ Quit PROVE Shows'
  BY <1>8, ShowsFrame DEF ConfigChanged, StopServer, Quit, appVars
<1>9. ASSUME NEW i, ProcessActs(i) \/ ServerExited(i)
      PROVE  Shows'
  BY <1>9, ShowsFrame DEF ProcessActs, ProcessWrites, ProcessEnds, ReadersEnd,
                          Forward, StreamsEnd, LogLine,
                          ServerExited, connectionVars, appVars
<1>10. CASE UNCHANGED vars
  BY <1>10, ShowsFrame DEF vars, connectionVars, appVars
<1> QED BY <1>1, <1>2, <1>3, <1>4, <1>5, <1>6, <1>7, <1>8, <1>9, <1>10
        DEF Next, User, System, ProcessActs

-----------------------------------------------------------------------------
(* The launched server *)

\* Follow: what a step does to the processes, and the process it may start.
Follow ==
  /\ \A i \in Ids : Goes(processes[i], processes'[i])
  /\ \/ Len(processes') = Len(processes)
     \/ /\ Len(processes') = Len(processes) + 1
        /\ processes'[Len(processes) + 1] = NewProcess

LEMMA GoesNowhere == \A p : Goes(p, p)
  BY DEF Goes

LEMMA Unmoved ==
  ASSUME UNCHANGED processes
  PROVE  Follow
  BY GoesNowhere DEF Follow

LEMMA DroppedGoes ==
  ASSUME NEW ps \in Seq(Process), processes' = Dropped(ps, "stopped"), ps = processes
  PROVE  Follow
<1>1. /\ Len(processes') = Len(processes)
      /\ \A i \in 1 .. Len(processes) :
           processes'[i] = IF i = child /\ processes[i].state = "alive"
                             THEN [processes[i] EXCEPT !.state = "stopped"] ELSE processes[i]
  BY DroppedShape
<1>2. ASSUME NEW i \in Ids PROVE Goes(processes[i], processes'[i])
  <2>1. processes[i] \in Process /\ i \in 1 .. Len(processes)
    BY ElementOfSeq DEF Ids
  <2>2. Goes(processes[i], [processes[i] EXCEPT !.state = "stopped"])
    BY <2>1 DEF Process, Goes, Announced
  <2> QED BY <1>1, <2>1, <2>2, GoesNowhere
<1> QED BY <1>1, <1>2 DEF Follow

LEMMA StartGoes ==
  ASSUME TypeOK, Placed, NEW cut, StartServer(cut)
  PROVE  Follow
<1>1. /\ processes \in Seq(Process) /\ Len(processes) \in Nat /\ child = 0
      /\ NewProcess \in Process
  BY Parts3, NewProcessType, LenProperties DEF TypeOK, Placed, StartServer
<1> DEFINE ps == Dropped(processes, "dropped")
<1>2. /\ ps \in Seq(Process) /\ Len(ps) = Len(processes)
      /\ \A i \in 1 .. Len(processes) :
           ps[i] = IF i = child /\ processes[i].state = "alive"
                     THEN [processes[i] EXCEPT !.state = "dropped"] ELSE processes[i]
  BY <1>1, DroppedShape
<1>3. processes' = Append(ps, NewProcess)
  BY DEF StartServer
<1> HIDE DEF ps
<1>4. \A i \in 1 .. Len(processes) : ps[i] = processes[i]
  <2>1. \A i \in 1 .. Len(processes) : i # child
    BY <1>1
  <2> QED BY <1>2, <2>1
<1>5. /\ Len(processes') = Len(processes) + 1
      /\ \A i \in 1 .. Len(processes) : processes'[i] = processes[i]
      /\ processes'[Len(processes) + 1] = NewProcess
  BY <1>1, <1>2, <1>3, <1>4, AppendProperties
<1> QED BY <1>5, GoesNowhere DEF Follow, Ids

LEMMA ActsGoes ==
  ASSUME TypeOK, NEW i \in Ids, ProcessActs(i)
  PROVE  Follow
<1>1. PICK q \in Process : processes' = [processes EXCEPT ![i] = q] /\ Goes(processes[i], q)
  BY ProcessStep
<1>2. processes \in Seq(Process) /\ i \in 1 .. Len(processes)
  BY DEF TypeOK, Ids
<1>3. /\ Len(processes') = Len(processes)
      /\ \A k \in Ids : processes'[k] = IF k = i THEN q ELSE processes[k]
  BY <1>1, <1>2, ExceptSeq DEF Ids
<1> QED BY <1>1, <1>3, GoesNowhere DEF Follow

\* ExitedGoes: the child is let go of at its own exit, when nobody reads, or at that of an
\* earlier process, which was to come when it was started.
LEMMA ExitedGoes ==
  ASSUME TypeOK, Placed, Sent, NEW i \in Ids, ServerExited(i)
  PROVE  Follow
<1> DEFINE ps == [processes EXCEPT ![i].channel = Tail(@)]
           q  == [processes[i] EXCEPT !.channel = Tail(@)]
<1>1. processes[i].channel # <<>> /\ Head(processes[i].channel) = "exited"
  BY DEF ServerExited
<1>2. /\ ps \in Seq(Process) /\ Len(ps) = Len(processes)
      /\ \A k \in Ids : ps[k] = IF k = i THEN q ELSE processes[k]
  BY <1>1, Tails
<1>3. processes' = Dropped(ps, "dropped")
  BY DEF ServerExited
<1>4. processes[i] \in Process /\ processes[i].channel \in Seq({"line", "exited"})
  <2>1. processes[i] \in Process
    BY ElementOfSeq DEF TypeOK, Ids
  <2> QED BY <2>1 DEF Process
<1>5. /\ Len(processes[i].channel) \in Nat /\ Len(processes[i].channel) > 0
      /\ processes[i].channel[1] = "exited"
      /\ Len(Tail(processes[i].channel)) = Len(processes[i].channel) - 1
      /\ \A k \in 1 .. Len(Tail(processes[i].channel)) :
           Tail(processes[i].channel)[k] = processes[i].channel[k + 1]
  BY <1>1, <1>4, HeadTailProperties, EmptySeq, LenProperties
<1>6. ~processes[i].reading
  <2>1. Announced(processes[i])
    BY <1>5 DEF Announced
  <2> QED BY <2>1 DEF Sent
<1>7. /\ q.channel = Tail(processes[i].channel) /\ q.reading = processes[i].reading
      /\ q.listen = processes[i].listen /\ q.timed = processes[i].timed
      /\ q.awaited = processes[i].awaited /\ q.forwarding = processes[i].forwarding
      /\ q.state = processes[i].state
  BY <1>4 DEF Process
<1>8. Goes(processes[i], q)
  BY <1>1, <1>6, <1>7 DEF Goes
<1> HIDE DEF ps, q
<1>9. \A k \in Ids : ps[k] \in Process /\ Goes(processes[k], ps[k])
  BY <1>2, <1>8, GoesNowhere, ElementOfSeq DEF Ids
<1>10. child \in Ids => ~ps[child].reading \/ "exit" \in ps[child].awaited
  <2> SUFFICES ASSUME child \in Ids PROVE ~ps[child].reading \/ "exit" \in ps[child].awaited
    OBVIOUS
  <2>1. CASE child = i
    BY <1>2, <1>6, <1>7, <2>1
  <2>2. CASE child # i
    <3>1. i < child
      BY <2>2, LenProperties DEF Placed, Ids, TypeOK
    <3>2. "exit" \in processes[child].awaited
      BY <1>1, <3>1 DEF Sent
    <3> QED BY <1>2, <2>2, <3>2
  <2> QED BY <2>1, <2>2
<1>11. /\ Len(processes') = Len(processes)
       /\ \A k \in 1 .. Len(processes) :
            processes'[k] = IF k = child /\ ps[k].state = "alive"
                              THEN [ps[k] EXCEPT !.state = "dropped"] ELSE ps[k]
  BY <1>2, <1>3, DroppedShape
<1>12. ASSUME NEW k \in Ids PROVE Goes(processes[k], processes'[k])
  <2>1. CASE processes'[k] = ps[k]
    BY <1>9, <2>1
  <2>2. CASE k = child /\ processes'[k] = [ps[k] EXCEPT !.state = "dropped"]
    <3> DEFINE d == [ps[k] EXCEPT !.state = "dropped"]
    <3>1. /\ d.listen = ps[k].listen /\ d.timed = ps[k].timed /\ d.awaited = ps[k].awaited
          /\ d.reading = ps[k].reading /\ d.forwarding = ps[k].forwarding
          /\ d.channel = ps[k].channel
      BY <1>9 DEF Process
    <3> HIDE DEF d
    <3>2. ~d.reading \/ "exit" \in d.awaited
      BY <1>10, <2>2, <3>1
    <3>3. Goes(processes[k], d)
      BY <1>9, <3>1, <3>2 DEF Goes, Announced
    <3> QED BY <2>2, <3>3 DEF d
  <2> QED BY <1>11, <2>1, <2>2 DEF Ids
<1> QED BY <1>11, <1>12 DEF Follow

LEMMA LaunchGoes ==
  ASSUME TypeOK, Launch
  PROVE  Follow
<1>1. processes \in Seq(Process) /\ Len(processes) \in Nat
  BY LenProperties DEF TypeOK
<1> DEFINE q(i) == [processes[i] EXCEPT !.reading = FALSE, !.lines = 0, !.forwarding = FALSE,
                                        !.channel = <<>>]
<1>2. processes' = [i \in 1 .. Len(processes) |-> q(i)]
  BY DEF Launch, Ids
<1>3. ASSUME NEW i \in Ids PROVE Goes(processes[i], q(i))
  <2>1. processes[i] \in Process
    BY <1>1, ElementOfSeq DEF Ids
  <2>2. /\ q(i).listen = processes[i].listen /\ q(i).timed = processes[i].timed
        /\ q(i).awaited = processes[i].awaited /\ ~q(i).reading /\ ~q(i).forwarding
        /\ q(i).channel = <<>>
    BY <2>1 DEF Process
  <2> QED BY <2>2 DEF Goes
<1> HIDE DEF q
<1>4. Len(processes') = Len(processes) /\ \A i \in Ids : processes'[i] = q(i)
  BY <1>1, <1>2, LenProperties DEF Ids
<1> QED BY <1>3, <1>4 DEF Follow

\* StepGoes: what every step does to the processes.
LEMMA StepGoes == TypeOK /\ Placed /\ Sent /\ [Next]_vars => Follow
<1> SUFFICES ASSUME TypeOK, Placed, Sent, [Next]_vars PROVE Follow
  OBVIOUS
<1>1. CASE StopServer \/ Quit
  BY <1>1, DroppedGoes DEF StopServer, Quit, TypeOK
<1>2. ASSUME NEW c, ConfigChanged(c) \/ ServerSaveConfig(c) PROVE Follow
  BY <1>2, Unmoved DEF ConfigChanged, ServerSaveConfig, launcherVars
<1>3. ASSUME NEW t, AutoConnect(t) PROVE Follow
  BY <1>3, Unmoved DEF AutoConnect
<1>4. CASE UNCHANGED launcherVars
  BY <1>4, Unmoved DEF launcherVars
<1>5. CASE UNCHANGED vars
  BY <1>4, <1>5 DEF vars
<1> QED BY <1>1, <1>2, <1>3, <1>4, <1>5, StartGoes, ActsGoes, ExitedGoes, LaunchGoes
        DEF Next, User, System, ProcessActs

LEMMA StepPlaced == TypeOK /\ Placed /\ [Next]_vars => Placed'
<1> SUFFICES ASSUME TypeOK, Placed, [Next]_vars PROVE Placed'
  OBVIOUS
<1>1. processes \in Seq(Process) /\ Len(processes) \in Nat
  BY LenProperties DEF TypeOK
<1>2. ASSUME UNCHANGED <<server_running, child>>, Len(processes') = Len(processes)
      PROVE  Placed'
  BY <1>2 DEF Placed
<1>3. ASSUME NEW cut, StartServer(cut) PROVE Placed'
  <2>1. Len(processes') = Len(processes) + 1
    BY <1>3, StartType
  <2> QED BY <1>1, <1>3, <2>1 DEF StartServer, Placed
<1>4. ASSUME server_running' = FALSE, child' = 0 PROVE Placed'
  BY <1>4 DEF Placed
<1>5. CASE Quit
  <2>1. Len(processes') = Len(processes) /\ UNCHANGED <<server_running, child>>
    BY <1>1, <1>5, DroppedShape DEF Quit
  <2> QED BY <1>2, <2>1
<1>6. ASSUME NEW i \in Ids, ProcessActs(i) PROVE Placed'
  <2>1. PICK q \in Process : processes' = [processes EXCEPT ![i] = q]
    BY <1>6, ProcessStep
  <2>2. Len(processes') = Len(processes)
    BY <1>1, <2>1, ExceptSeq DEF Ids
  <2>3. UNCHANGED <<server_running, child>>
    BY <1>6 DEF ProcessActs, ProcessWrites, ProcessEnds, ReadersEnd, Forward, StreamsEnd,
                LogLine
  <2> QED BY <1>2, <2>2, <2>3
<1>7. ASSUME NEW i, ServerExited(i) \/ StopServer \/ Launch PROVE Placed'
  BY <1>4, <1>7 DEF ServerExited, StopServer, Launch
<1>8. ASSUME NEW c, ConfigChanged(c) \/ ServerSaveConfig(c) \/ AutoConnect(c) PROVE Placed'
  BY <1>2, <1>8 DEF ConfigChanged, ServerSaveConfig, AutoConnect, launcherVars
<1>9. CASE UNCHANGED launcherVars
  BY <1>2, <1>9 DEF launcherVars
<1>10. CASE UNCHANGED vars
  BY <1>9, <1>10 DEF vars
<1> QED BY <1>3, <1>5, <1>6, <1>7, <1>8, <1>9, <1>10 DEF Next, User, System, ProcessActs

LEMMA StepSent ==
  ASSUME TypeOK, Sent, Follow
  PROVE  Sent'
<1>1. Len(processes) \in Nat /\ Ids = 1 .. Len(processes) /\ Ids' = 1 .. Len(processes')
  BY LenProperties DEF TypeOK, Ids
<1> DEFINE Quiet(k) == ~processes'[k].forwarding /\ processes'[k].channel = <<>>
<1>2. ASSUME NEW k \in Ids, ~processes[k].forwarding, processes[k].channel = <<>>
      PROVE  Quiet(k)
  BY <1>2 DEF Follow, Goes
<1>3. ASSUME NEW i \in Ids
      PROVE  /\ Announced(processes'[i]) => ~processes'[i].reading
             /\ processes'[i].state = "dropped" =>
                  ~processes'[i].reading \/ "exit" \in processes'[i].awaited
             /\ "exit" \notin processes'[i].awaited => \A k \in Ids : k < i => Quiet(k)
  <2>1. Goes(processes[i], processes'[i])
    BY DEF Follow
  <2> QED BY <1>2, <2>1 DEF Goes, Sent
<1>4. CASE Len(processes') = Len(processes)
  BY <1>1, <1>3, <1>4 DEF Sent
<1>5. CASE /\ Len(processes') = Len(processes) + 1
           /\ processes'[Len(processes) + 1] = NewProcess
  <2>1. /\ ~Announced(NewProcess) /\ NewProcess.state = "alive"
        /\ NewProcess.awaited = Awaited
    BY EmptySeq DEF NewProcess, Announced
  <2>2. "exit" \notin Awaited => \A k \in Ids : Quiet(k)
    <3>1. "exit" \notin Awaited =>
            \A k \in Ids : ~processes[k].forwarding /\ processes[k].channel = <<>>
      BY DEF Awaited
    <3> QED BY <1>2, <3>1
  <2> HIDE DEF Quiet
  <2>3. ASSUME NEW i \in Ids'
        PROVE  /\ Announced(processes'[i]) => ~processes'[i].reading
               /\ processes'[i].state = "dropped" =>
                    ~processes'[i].reading \/ "exit" \in processes'[i].awaited
               /\ "exit" \notin processes'[i].awaited => \A k \in Ids' : k < i => Quiet(k)
    <3>1. \A k \in Ids' : k < i => k \in Ids
      BY <1>1, <1>5
    <3>2. CASE i \in Ids
      BY <1>3, <3>1, <3>2
    <3>3. CASE i = Len(processes) + 1
      BY <1>5, <2>1, <2>2, <3>1, <3>3
    <3> QED BY <1>1, <1>5, <3>2, <3>3
  <2> QED BY <2>3 DEF Sent, Quiet
<1> QED BY <1>4, <1>5 DEF Follow

\* TimedFrame: what keeps the timers, the client, and the child or its absence.
LEMMA TimedFrame ==
  ASSUME TypeOK, Timed, Follow, UNCHANGED timers, up' => up, child' \in {0, child},
         UNCHANGED client, active' \in {active} \union Names \union {None}
  PROVE  Timed'
<1>1. Ids \subseteq Ids'
  BY LenProperties DEF Follow, Ids, TypeOK
<1>2. \A i \in Ids : /\ processes'[i].listen = processes[i].listen
                     /\ processes'[i].timed = processes[i].timed
                     /\ processes'[i].awaited = processes[i].awaited
  BY DEF Follow, Goes
<1>3. \A t \in timers' : t.at \in Ids' /\ t.server = processes'[t.at].listen
  BY <1>1, <1>2 DEF Timed
<1>4. ASSUME up', child' # 0, processes'[child'].timed, "timer" \notin processes'[child'].awaited
      PROVE  /\ \A t \in timers' : t.at = child'
             /\ active' = OwnServer /\ timers' = {} => ClientIsOf(processes[child])'
  <2>1. child' = child /\ child \in Ids /\ up
    BY <1>4, LenProperties DEF TypeOK, Ids
  <2>2. processes[child].timed /\ "timer" \notin processes[child].awaited
    BY <1>2, <1>4, <2>1
  <2>3. active' = OwnServer => active = OwnServer
    BY NamesAssumption
  <2> QED BY <1>2, <1>4, <2>1, <2>2, <2>3 DEF Timed, ClientIsOf
<1> QED BY <1>3, <1>4 DEF Timed

LEMMA StartTimed ==
  ASSUME TypeOK, Timed, Follow, NEW cut, StartServer(cut)
  PROVE  Timed'
<1>1. Len(processes') = Len(processes) + 1 /\ Len(processes) \in Nat
  BY StartType, LenProperties DEF TypeOK
<1>2. /\ processes'[child'] = NewProcess /\ child' = Len(processes) + 1
      /\ \A i \in Ids : processes'[i].listen = processes[i].listen
  <2>1. child' = Len(processes')
    BY DEF StartServer
  <2>2. processes'[Len(processes) + 1] = NewProcess /\ Len(processes) + 1 # Len(processes)
    BY <1>1 DEF Follow
  <2>3. \A i \in Ids : processes'[i].listen = processes[i].listen
    BY DEF Follow, Goes
  <2> QED BY <1>1, <2>1, <2>2, <2>3
<1>3. /\ NewProcess.listen = server_config.listen /\ NewProcess.timed = server_config.auto_connect
      /\ "timer" \notin NewProcess.awaited => timers = {}
  BY DEF NewProcess, Awaited
<1> DEFINE t0 == [server |-> server_config.listen, at |-> child']
<1>4. timers' = IF server_config.auto_connect THEN timers \union {t0} ELSE timers
  BY DEF StartServer
<1>5. t0.server = server_config.listen /\ t0.at = child'
  OBVIOUS
<1> HIDE DEF t0
<1>6. Ids \subseteq Ids' /\ child' \in Ids'
  BY <1>1, <1>2 DEF Ids
<1>7. \A t \in timers' : t.at \in Ids' /\ t.server = processes'[t.at].listen
  <2>1. \A t \in timers : t.at \in Ids' /\ t.server = processes'[t.at].listen
    BY <1>2, <1>6 DEF Timed
  <2>2. t0.at \in Ids' /\ t0.server = processes'[t0.at].listen
    BY <1>2, <1>3, <1>5, <1>6
  <2> QED BY <1>4, <2>1, <2>2
<1>8. ASSUME NewProcess.timed, "timer" \notin NewProcess.awaited
      PROVE  timers' = {t0}
  BY <1>3, <1>4, <1>8
<1> QED BY <1>2, <1>5, <1>7, <1>8 DEF Timed

LEMMA ConnectTimed ==
  ASSUME TypeOK, Placed, Timed, NEW t \in timers, AutoConnect(t)
  PROVE  Timed'
<1>1. timers' = timers \ {t} /\ UNCHANGED <<up, server_running, child, processes>>
  BY DEF AutoConnect
<1>2. Ids' = Ids /\ \A u \in timers' : u.at \in Ids' /\ u.server = processes'[u.at].listen
  BY <1>1 DEF Ids, Timed
<1>3. ASSUME up, child # 0, processes[child].timed, "timer" \notin processes[child].awaited
      PROVE  client'.server = processes[child].listen
  <2>1. t.at = child /\ t.server = processes[child].listen
    BY <1>3 DEF Timed
  <2>2. client' = [server |-> t.server, keys |-> NoKeys]
    BY <1>3 DEF AutoConnect, Connected, Placed
  <2> QED BY <2>1, <2>2
<1>4. (up /\ child # 0 /\ processes[child].timed /\ "timer" \notin processes[child].awaited) =>
        \A u \in timers' : u.at = child
  BY <1>1 DEF Timed
<1> QED BY <1>1, <1>2, <1>3, <1>4 DEF Timed, ClientIsOf

LEMMA StepTimed == TypeOK /\ Placed /\ Timed /\ Follow /\ [Next]_vars => Timed'
<1> SUFFICES ASSUME TypeOK, Placed, Timed, Follow, [Next]_vars PROVE Timed'
  OBVIOUS
<1>1. ASSUME NEW cut, ServerSaveConfig(cut) PROVE Timed'
  BY <1>1, TimedFrame DEF ServerSaveConfig, launcherVars, appVars, Act
<1>2. ASSUME NEW c, ConfigChanged(c) \/ StopServer \/ Quit PROVE Timed'
  BY <1>2, TimedFrame DEF ConfigChanged, StopServer, Quit, appVars
<1>3. CASE Launch
  BY <1>3 DEF Launch, Timed
<1>4. ASSUME NEW i, ProcessActs(i) \/ ServerExited(i) PROVE Timed'
  BY <1>4, TimedFrame DEF ProcessActs, ProcessWrites, ProcessEnds, ReadersEnd, Forward,
                          StreamsEnd, LogLine, ServerExited, connectionVars, appVars
<1>5. ASSUME NEW n \in Names, NEW server, NEW k, NEW cut, UNCHANGED launcherVars,
             AddConnection(n, server, k, cut) \/ RemoveConnection(n, k, cut)
      PROVE  Timed'
  BY <1>5, TimedFrame DEF AddConnection, RemoveConnection, launcherVars, appVars, Act
<1>6. ASSUME NEW n \in Names, ConnectTo(n), UNCHANGED launcherVars PROVE Timed'
  BY <1>6, NamesAssumption DEF ConnectTo, Connected, Timed, launcherVars, Ids
<1>7. ASSUME NEW n, Refresh(n) \/ Answer(n), UNCHANGED launcherVars PROVE Timed'
  BY <1>7, TimedFrame DEF Refresh, Answer, launcherVars
<1>8. CASE UNCHANGED vars
  BY <1>8, TimedFrame DEF vars, launcherVars, connectionVars, appVars
<1>9. ASSUME NEW t \in timers, AutoConnect(t) PROVE Timed'
  BY <1>9, ConnectTimed
<1>10. ASSUME NEW cut, StartServer(cut) PROVE Timed'
  BY <1>10, StartTimed
<1>11. CASE User
  BY <1>1, <1>2, <1>3, <1>5, <1>6, <1>7, <1>10, <1>11 DEF User
<1>12. CASE System
  BY <1>4, <1>7, <1>9, <1>12 DEF System, ProcessActs
<1> QED BY <1>8, <1>11, <1>12 DEF Next

-----------------------------------------------------------------------------
(* The theorems *)

LEMMA InitHolds == Init => IInv
<1> SUFFICES ASSUME Init PROVE IInv
  OBVIOUS
<1>1. TypeOK /\ StoreOK
  BY InitType, Parts3
<1>2. file \in Settings /\ settings = file /\ uncertain = {}
  BY SettingsAssumption DEF Init
<1>3. \A n \in Names : wanted[n] = ClientFor(n)
  BY DEF Init
<1>4. Kept
  <2>1. file # Torn
    BY <1>2, SettingsAssumption
  <2>2. ASSUME NEW n \in Names
        PROVE  wanted[n].server = settings.connections[n] /\ wanted[n].keys = GetKeys(n)
    <3> DEFINE keys == GetKeys(n)
    <3>1. wanted[n] = [server |-> settings.connections[n], keys |-> keys]
      BY <1>3 DEF ClientFor
    <3> HIDE DEF keys
    <3>2. wanted[n].server = settings.connections[n] /\ wanted[n].keys = keys
      BY <3>1
    <3> QED BY <3>2 DEF keys
  <2> QED BY <1>2, <2>1, <2>2 DEF Kept
<1>5. client.server = None
  BY DEF Init
<1>6. Placed /\ Sent /\ Timed
  <2>1. processes = <<>> /\ Len(processes) = 0
    BY EmptySeq DEF Init
  <2>2. Ids = {}
    BY <2>1 DEF Ids
  <2> QED BY <2>1, <2>2 DEF Init, Placed, Sent, Timed
<1> QED BY <1>1, <1>4, <1>5, <1>6 DEF IInv

LEMMA Invariance == Spec => []IInv
<1>1. IInv /\ [Next]_vars => IInv'
  <2> SUFFICES ASSUME IInv, [Next]_vars PROVE IInv'
    OBVIOUS
  <2>1. TypeOK /\ Kept /\ Shows /\ Placed /\ Sent /\ Timed
    BY DEF IInv, Shows
  <2>2. TypeOK' /\ Kept' /\ Shows' /\ Placed' /\ Sent' /\ Timed'
    BY <2>1, StepType, StepKept, StepShows, StepPlaced, StepGoes, StepSent, StepTimed
  <2> QED BY <2>2 DEF IInv, Shows
<1> QED BY <1>1, InitHolds, PTL DEF Spec

\* TypeCorrect: settings, answers and processes have their types, also when settings are
\* read back from a file that does not parse.
THEOREM TypeCorrect == Spec => []TypeOK
<1>1. IInv => TypeOK
  BY DEF IInv
<1> QED BY <1>1, Invariance, PTL

\* SavedStaysKept: for every set of names, servers and keys, and whatever steps of saves and
\* removals fail, a name whose own last save did not fail has in the settings, the file and
\* the keychain the server and the keys it was saved with.
THEOREM SavedStaysKept == Spec => []SavedIsKept
<1>1. IInv => SavedIsKept
  <2> SUFFICES ASSUME IInv, NEW n \in Names \ uncertain
               PROVE  /\ up => ClientFor(n) = wanted[n]
                      /\ file # Torn
                      /\ file.connections[n] = wanted[n].server
    BY DEF SavedIsKept
  <2>1. wanted[n] = [server |-> wanted[n].server, keys |-> wanted[n].keys]
    BY DEF IInv, TypeOK
  <2> QED BY <2>1 DEF IInv, Kept, ClientFor
<1> QED BY <1>1, Invariance, PTL

\* ShownIsRight: unless requests were out when the client was replaced, nothing on the screen
\* is of a server but the one connected to, and what is missing is still to come.
THEOREM ShownIsRight == Spec => []ShownIsOfServer
<1>1. IInv => ShownIsOfServer
  <2> SUFFICES ASSUME Own
               PROVE  /\ \A v \in Views \ {"nodes"} : shown[v] \in {None, client.server}
                      /\ requests = {} =>
                           /\ shown["buckets"] # None
                           /\ shown["probe"] # None =>
                                /\ None \notin {shown["disks"], shown["heal"]}
                                /\ client.server \in ClusterServers =>
                                     shown["nodes"] = client.server
    BY DEF IInv, ShownIsOfServer
  <2>1. requests = {} => \A v : ~Asked(v)
    BY DEF Asked
  <2> QED BY <2>1 DEF Own
<1> QED BY <1>1, Invariance, PTL

\* EventsAreOwn: for any number of servers started, a process that runs is let go of only
\* when nobody reads its streams any more, or when it was started while an exit of an earlier
\* one was still to come.  And once the timer of the server that runs has come, the connection
\* to the server is to that one, unless it was started within the time of an earlier one's.
THEOREM EventsAreOwn == Spec => []OwnEvents
<1>1. IInv => OwnEvents
  <2> SUFFICES ASSUME IInv PROVE OwnEvents
    OBVIOUS
  <2>1. \A i \in Ids : processes[i].state = "dropped" =>
                         ~processes[i].reading \/ "exit" \in processes[i].awaited
    BY DEF IInv, Sent
  <2>2. ASSUME up, server_running, active = OwnServer, processes[child].timed,
               \A t \in timers : t.at # child, "timer" \notin processes[child].awaited
        PROVE  client.server = processes[child].listen
    <3>1. child # 0
      BY <2>2 DEF IInv, Placed
    <3>2. \A t \in timers : t.at = child
      BY <2>2, <3>1 DEF IInv, Timed
    <3>3. timers = {}
      BY <2>2, <3>2
    <3> QED BY <2>2, <3>1, <3>3 DEF IInv, Timed, ClientIsOf
  <2> QED BY <2>1, <2>2 DEF OwnEvents
<1> QED BY <1>1, Invariance, PTL

=============================================================================
