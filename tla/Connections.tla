----------------------------- MODULE Connections -----------------------------
(***************************************************************************)
(* Connections: the settings file and the keychain they are kept in, and   *)
(* the server the application is connected to.  src/src/config.rs,         *)
(* src/src/keychain.rs, src/src/app/handlers/connection.rs and admin.rs.   *)
(*                                                                         *)
(* Saving writes two entries of the keychain and one file, one after the   *)
(* other.  Any of the three can fail, and the program can end there; a     *)
(* file cut in the middle of its writing no longer parses.                 *)
(*                                                                         *)
(* Data abstraction: an endpoint is the server it reaches; the region goes *)
(* with it; a pair of keys is numbered.  An answer is the server it comes  *)
(* from, whether it is data or an error.                                   *)
(***************************************************************************)
EXTENDS Integers, Sequences, FiniteSets

CONSTANTS
  Names,        \* of connections
  Servers, AbixioServers, ClusterServers,  \* kinds of servers, the later among the earlier
  Keys,         \* pairs of access key and secret key
  None,         \* no connection, no key, no server, nothing shown
  Torn,         \* what does not parse
  OwnServer,    \* "(server)", the connection to the launched server
  Configs,      \* configurations of the server to launch
  FirstSettings,\* what settings.json may hold at first
  Parts,        \* bound: the parts of the application used in a run
  MaxActs       \* bound: acts of the user, for each of Parts

ASSUME ServersAssumption ==
  ClusterServers \subseteq AbixioServers /\ AbixioServers \subseteq Servers
\* A name begins with a letter.
ASSUME NamesAssumption == OwnServer \notin Names \union {None}
ASSUME BoundsAssumption == MaxActs \in [Parts -> Nat]

\* A pair of keychain entries; what settings.json holds.
Pair == [access: Keys \union {None}, secret: Keys \union {None}]
Settings == [connections: [Names -> Servers \union {None}], server: Configs]

ASSUME SettingsAssumption ==
  /\ Configs \subseteq [listen: Servers, volumes: Nat, auto_connect: BOOLEAN]
  /\ Configs # {}
  /\ Torn \notin Settings
  /\ \A first \in FirstSettings :
       /\ [connections |-> first.connections, server |-> first.server] \in Settings
       /\ first.keychain \in [Names -> Pair]

VARIABLES
  part,       \* what this run uses: "save", "browse", "launch"
  up,         \* the program runs
  settings,   \* App.settings: connections, and the configuration of the server
  file,       \* settings.json
  keychain,   \* the two entries of each name
  client,     \* App.client, with the endpoint and keys of App.admin_client
  active,     \* App.active_connection
  shown,      \* buckets, server_status, disks_data, heal_data, cluster_nodes
  requests,   \* requests for these not answered yet
  acts,       \* history: acts of the user so far
  wanted,     \* history: the connection of each name when it was last saved without failure
  uncertain,  \* history: names whose saving or removal has failed since
  mixed       \* history: the client was replaced while requests were out

appVars == <<client, active, shown, requests, mixed>>
storeVars == <<settings, file, keychain, wanted, uncertain>>
connectionVars == <<part, up, acts, storeVars, appVars>>

Views == {"buckets", "probe", "disks", "heal", "nodes"}

-----------------------------------------------------------------------------
(* The keychain and the file *)

NoKeys == [access |-> None, secret |-> None]

\* Mutant: an access key that is there is left alone.
StoreKeysOnce(name, keys, cut) ==
  CASE cut = "access" -> keychain
    [] cut = "secret" \/ keychain[name].access # None -> [keychain EXCEPT ![name].secret = keys]
    [] OTHER          -> [keychain EXCEPT ![name] = [access |-> keys, secret |-> keys]]

\* store_keys, up to the entry whose writing fails.
StoreKeys(name, keys, cut) ==
  CASE cut = "access" -> keychain
    [] cut = "secret" -> [keychain EXCEPT ![name].access = keys]
    [] OTHER          -> [keychain EXCEPT ![name] = [access |-> keys, secret |-> keys]]

\* get_keys: anonymous unless both entries are there.
GetKeys(name) ==
  IF None \in {keychain[name].access, keychain[name].secret} THEN NoKeys ELSE keychain[name]

DeleteKeys(name, cut) ==
  CASE cut = "access" -> keychain
    [] cut = "secret" -> [keychain EXCEPT ![name].access = None]
    [] OTHER          -> [keychain EXCEPT ![name] = NoKeys]

\* save: the file is opened and written over.
Save(s, cut) ==
  file' = CASE cut = "write" -> Torn [] cut = "none" -> s [] OTHER -> file

NoSettings == [connections |-> [n \in Names |-> None], server |-> CHOOSE c \in Configs : TRUE]

\* load().unwrap_or_default().
Load == IF file = Torn THEN NoSettings ELSE file

\* A step that fails is reported, and the program goes on or ends there.
GoesOn(cut) == up' \in IF cut = "none" THEN {TRUE} ELSE BOOLEAN

Act(p) ==
  /\ up
  /\ p \in part
  /\ acts < MaxActs[part]
  /\ acts' = acts + 1

\* add_connection: keys first, unless both fields are blank; then the connection, in
\* place of one with its name.
AddConnection(name, server, keys, cut) ==
  LET kept == cut \in {"access", "secret"}
      new  == IF kept THEN settings ELSE [settings EXCEPT !.connections[name] = server]
  IN  /\ Act("save")
      /\ GoesOn(cut)
      /\ keys = None => ~kept
      /\ keychain' = IF keys = None THEN keychain ELSE StoreKeys(name, keys, cut)
      /\ settings' = new
      /\ IF kept THEN UNCHANGED file ELSE Save(new, cut)
      /\ wanted' = [wanted EXCEPT ![name] =
                      IF cut # "none" THEN @
                      ELSE [server |-> server,
                            keys |-> IF keys = None THEN @.keys
                                     ELSE [access |-> keys, secret |-> keys]]]
      /\ uncertain' = CASE cut = "write" -> Names
                        [] cut \in {"access", "secret", "open"} -> uncertain \union {name}
                        [] cut = "none" /\ keys = None -> uncertain
                        [] OTHER -> uncertain \ {name}
      /\ UNCHANGED <<part, appVars>>

\* remove_connection: a failure to remove keys is ignored.
RemoveConnection(name, keycut, cut) ==
  LET new == [settings EXCEPT !.connections[name] = None]
  IN  /\ Act("save")
      /\ settings.connections[name] # None
      /\ GoesOn(cut)
      /\ keychain' = DeleteKeys(name, keycut)
      /\ settings' = new
      /\ Save(new, cut)
      /\ active' = IF active = name THEN None ELSE active
      /\ wanted' = [wanted EXCEPT ![name] = [server |-> None, keys |-> NoKeys]]
      /\ uncertain' = CASE cut = "write" -> Names
                        [] cut = "none" /\ keycut = "none" -> uncertain \ {name}
                        [] OTHER -> uncertain \union {name}
      /\ UNCHANGED <<part, client, shown, requests, mixed>>

-----------------------------------------------------------------------------
(* Connecting *)

\* What make_client_for_connection, connect and test make of a name.
ClientFor(name) == [server |-> settings.connections[name], keys |-> GetKeys(name)]

Request(kinds, server) == {[kind |-> k, server |-> server, at |-> acts] : k \in kinds}

Nothing == [v \in Views |-> None]

\* Mutant: the disks stay on the screen.
ReplacedKeepsDisks(view) == IF view \in {"nodes", "disks"} THEN shown[view] ELSE None

\* What is left of a view when the client is replaced: the nodes of the cluster stay.
Replaced(view) == IF view = "nodes" THEN shown[view] ELSE None

\* The client is replaced, and its buckets and its status asked for.
Connected(c, name) ==
  /\ client' = c
  /\ active' = name
  /\ shown' = [v \in Views |-> Replaced(v)]
  /\ requests' = requests \union Request({"buckets", "probe"}, c.server)
  /\ mixed' = (requests # {})

ConnectTo(name) ==
  /\ Act("browse")
  /\ settings.connections[name] # None
  /\ active # name
  /\ Connected(ClientFor(name), name)
  /\ UNCHANGED <<part, up, storeVars>>

\* handle_abixio_detected: what an AbixIO server says of itself is asked for, of the
\* client of by then.  A probe that fails finds no AbixIO server.
AbixioDetected(r) ==
  /\ r.kind = "probe"
  /\ \E server \in {None} \union ({r.server} \intersect AbixioServers) :
       /\ shown' = [shown EXCEPT !["probe"] = server]
       /\ requests' = (requests \ {r}) \union
            Request({v \in {"disks", "heal", "nodes"} :
                       server # None /\ (v = "nodes" => server \in ClusterServers)},
                    client.server)

\* handle_buckets_loaded, _disks_loaded, _heal_status_loaded, _cluster_nodes_loaded.
Loaded(r) ==
  /\ r.kind # "probe"
  /\ shown' = [shown EXCEPT ![r.kind] = r.server]
  /\ requests' = requests \ {r}

\* An answer says nothing of the client it was made for.
Answer(r) ==
  /\ up
  /\ AbixioDetected(r) \/ Loaded(r)
  /\ UNCHANGED <<part, up, acts, storeVars, client, active, mixed>>

\* The refresh buttons of the buckets, and of the pages an AbixIO server has.
Refresh(view) ==
  /\ Act("browse")
  /\ client.server # None
  /\ view \in {"disks", "heal", "nodes"} => shown["probe"] # None
  /\ view = "nodes" => shown["probe"] \in ClusterServers
  /\ requests' = requests \union Request({view}, client.server)
  /\ UNCHANGED <<part, up, storeVars, client, active, shown, mixed>>

=============================================================================
