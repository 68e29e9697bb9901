----------------------------- MODULE ServerSetup -----------------------------
(***************************************************************************)
(* The life of the server process: where its settings come from (flags,    *)
(* environment, .env file), what NewServer opens with them, and what the   *)
(* data of one launch is to a later launch with other settings             *)
(* (cmd/server/main.go, internal/server/server.go, storage.go).            *)
(*                                                                         *)
(* A request is one step here: FileService has its steps.  A setting is a  *)
(* sequence of words, for a port may be given with or without a colon.     *)
(* One server runs at a time, always in the same working directory.        *)
(***************************************************************************)
EXTENDS Integers, SequencesExt

CONSTANTS
  Word,       \* the words that settings are made of
  Launches,   \* launches of the server: -port, argument, environment, .env
  Files,      \* the UUIDs the server may draw
  Zones,      \* UTC offsets that local time may have
  Instants,   \* when something may happen, in hundredths of a second
  Unset       \* a variable that is not set, no argument, launch or upload

Variables ==
  {"PORT", "STORAGE_TYPE", "AWS_BUCKET", "DATA_DIR", "REGISTRATION_TOKEN"}

Words == Seq(Word)
Environments == [Variables -> {Unset} \cup Words]

ASSUME LaunchesAssumption ==
  \A l \in Launches :
    l.port \in Words /\ l.arg \in {Unset} \cup Words
      /\ l.env \in Environments /\ l.dotenv \in Environments
ASSUME WordAssumption == {":", "8082"} \subseteq Word
ASSUME BoundsAssumption == Zones \subseteq Int /\ Instants \subseteq Nat

DefaultServerPort == <<":", "8082">>
DefaultDir == <<"./server_data">>

(* Settings of variable v in environment e; Getenv does not tell an unset  *)
(* variable from an empty one, godotenv.Load does.                         *)
Getenv(e, v) == IF e[v] = Unset THEN <<>> ELSE e[v]
Merged(l) == [v \in Variables |-> IF l.env[v] = Unset THEN l.dotenv[v]
                                                      ELSE l.env[v]]

(* The directory that main passes to NewServer, which may be "", and the   *)
(* one that a local store is opened in; server_data is ./server_data.      *)
ArgOf(l) == IF l.arg = Unset THEN DefaultDir ELSE l.arg
LocalDir(d, e) == CASE d # <<>> -> d
                    [] d = <<>> /\ Getenv(e, "DATA_DIR") # <<>> ->
                         Getenv(e, "DATA_DIR")
                    [] OTHER -> DefaultDir

DirOf(l) == LocalDir(ArgOf(l), Merged(l))
Dirs == {DirOf(l) : l \in Launches}
Buckets == {Getenv(Merged(l), "AWS_BUCKET") : l \in Launches} \ {<<>>}
Stores == ({"local"} \X Dirs) \cup ({"s3"} \X Buckets)

(* Where, when and at which UTC offset a file was uploaded. *)
Upload ==
  [place : [dir : Dirs, store : Stores], time : Instants, zone : Zones]

ASSUME UnsetAssumption == Unset \notin Upload

VARIABLES
  phase,      \* what the process does next, or down
  launch,     \* how it was started
  environ,    \* its environment
  port, dir,  \* the arguments of NewServer; then the address listened on
  store,      \* the blob store: its type and its directory or bucket
  token,      \* the registration token, <<>> for none
  zone,       \* the UTC offset of local time
  clock,      \* the time
  rows,       \* rows[d]: ids in table files of the database in directory d
  blobs,      \* blobs[s]: ids of the content in blob store s
  stamp,      \* stamp[f]: the column timestamp of f
  sent,       \* history: sent[f], the settings, time and zone of an upload
  deleted,    \* history: files whose deletion was acknowledged
  elsewhere   \* history: those deleted with another store than they were
              \* uploaded with

process == <<phase, launch, environ, port, dir, store, token>>
data == <<rows, blobs, stamp>>
history == <<sent, deleted, elsewhere>>
vars == <<process, zone, clock, data, history>>

(* What README.md says of a launch: flags, then the environment, then the  *)
(* .env file.                                                              *)
Setting(l, v) == Getenv(Merged(l), v)
PortSetting(l) == IF l.port # <<>> THEN l.port ELSE Setting(l, "PORT")
Place(l) == [dir |-> DirOf(l),
             store |-> IF Setting(l, "STORAGE_TYPE") = <<"s3">>
                         THEN <<"s3", Setting(l, "AWS_BUCKET")>>
                         ELSE <<"local", DirOf(l)>>]

(* Every variable has the shape the actions rely on; in particular the     *)
(* server serves from a directory and a store that were opened.            *)
TypeOK ==
  /\ phase \in {"down", "main", "load", "open", "routes", "serving"}
  /\ launch \in Launches \cup {Unset}
  /\ phase # "down" => launch \in Launches /\ DOMAIN environ = Variables
  /\ phase = "serving" => port # <<>> /\ Head(port) = ":"
  /\ phase \in {"routes", "serving"} => dir \in Dirs /\ store \in Stores
  /\ zone \in Zones /\ clock \in Instants
  /\ rows \in [Dirs -> SUBSET Files]
  /\ blobs \in [Stores -> SUBSET Files]
  /\ stamp \in [Files -> Seq(Int)]
  /\ sent \in [Files -> Upload \cup {Unset}]
  /\ elsewhere \subseteq deleted /\ deleted \subseteq Files

Init ==
  /\ phase = "down" /\ launch = Unset /\ environ = Unset
  /\ port = <<>> /\ dir = <<>> /\ store = Unset /\ token = <<>>
  /\ zone \in Zones /\ clock \in Instants
  /\ rows = [d \in Dirs |-> {}]
  /\ blobs = [s \in Stores |-> {}]
  /\ stamp = [f \in Files |-> <<>>]
  /\ sent = [f \in Files |-> Unset]
  /\ deleted = {} /\ elsewhere = {}

-----------------------------------------------------------------------------
(* Timestamps are stored as text, in local time with a UTC offset:         *)
(* 2006-01-02 15:04:05.999999999-07:00.  Here a text is a sequence of      *)
(* character codes, with one number for the part down to the seconds,      *)
(* which has a fixed width.  The fraction, here of two digits, loses its   *)
(* trailing zeros, and its point with the last digit.                      *)
Fraction(t) ==
  LET h == t % 100
      tenths == 48 + (h \div 10)
      hundredths == 48 + (h % 10)
  IN  CASE h = 0 -> <<>>
        [] h # 0 /\ h % 10 = 0 -> <<46, tenths>>
        [] OTHER -> <<46, tenths, hundredths>>

Offset(z) == IF z < 0 THEN <<45, -z>> ELSE <<43, z>>

(* Faulty variant: RFC3339 texts, which end in a Z. *)
ZuluText(t, z) == <<t \div 100>> \o Fraction(t) \o <<90>>

Text(t, z) == <<t \div 100 + z>> \o Fraction(t) \o Offset(z)

(* Texts are compared character by character. *)
TextLess(a, b) ==
  \E i \in DOMAIN b :
    /\ \A j \in 1..(i - 1) : j \in DOMAIN a /\ a[j] = b[j]
    /\ i \in DOMAIN a => a[i] < b[i]

(* SELECT ... ORDER BY timestamp DESC; equal texts come in any order. *)
Descends(list) ==
  \A i, j \in DOMAIN list : i < j => ~TextLess(stamp[list[i]], stamp[list[j]])
Listings(d) == {list \in SetToSeqs(rows[d]) : Descends(list)}

-----------------------------------------------------------------------------
(* Faulty variants of single actions below, which no specification uses;   *)
(* each breaks one property, to show that the property can fail.           *)

(* The storage type is read before the .env file. *)
StorageTypeReadEarly ==
  /\ phase = "open" /\ dir # <<>>
  /\ store' = IF Getenv(launch.env, "STORAGE_TYPE") = <<"s3">>
                THEN <<"s3", Getenv(environ, "AWS_BUCKET")>>
                ELSE <<"local", dir>>
  /\ store' \in Stores
  /\ phase' = "routes"
  /\ UNCHANGED <<launch, environ, port, dir, token, zone, clock, data, history>>

(* A bucket is not asked for. *)
BucketNotChecked ==
  /\ phase = "open" /\ dir # <<>>
  /\ store' = IF Getenv(environ, "STORAGE_TYPE") = <<"s3">>
                THEN <<"s3", Getenv(environ, "AWS_BUCKET")>>
                ELSE <<"local", dir>>
  /\ phase' = "routes"
  /\ UNCHANGED <<launch, environ, port, dir, token, zone, clock, data, history>>

(* .env overrides the environment. *)
Overload ==
  /\ phase = "load"
  /\ environ' = [v \in Variables |-> IF launch.dotenv[v] # Unset
                                       THEN launch.dotenv[v] ELSE environ[v]]
  /\ phase' = "open"
  /\ UNCHANGED <<launch, port, dir, store, token, zone, clock, data, history>>

(* The row goes and the content stays. *)
RowDeletedOnly(f) ==
  /\ phase = "serving" /\ f \in rows[dir]
  /\ rows' = [rows EXCEPT ![dir] = @ \ {f}]
  /\ deleted' = deleted \cup {f}
  /\ elsewhere' = IF store = sent[f].place.store THEN elsewhere
                                                 ELSE elsewhere \cup {f}
  /\ UNCHANGED <<process, zone, clock, blobs, stamp, sent>>

-----------------------------------------------------------------------------
(* The process. *)

(* A launch, by hand or by a supervisor, with the same or other settings.  *)
Launch(l) ==
  /\ phase = "down"
  /\ launch' = l /\ environ' = l.env
  /\ phase' = "main"
  /\ UNCHANGED <<port, dir, store, token, zone, clock, data, history>>

(* main: the port and the directory, from what is known so far. *)
Main ==
  /\ phase = "main"
  /\ LET env == Getenv(environ, "PORT")
     IN  port' = CASE launch.port # <<>> -> launch.port
                   [] launch.port = <<>> /\ env # <<>> -> env
                   [] OTHER -> DefaultServerPort
  /\ dir' = ArgOf(launch)
  /\ phase' = "load"
  /\ UNCHANGED <<launch, environ, store, token, zone, clock, data, history>>

(* NewServer: godotenv.Load sets what is not set yet. *)
LoadDotenv ==
  /\ phase = "load"
  /\ environ' = [v \in Variables |-> IF environ[v] = Unset
                                       THEN launch.dotenv[v] ELSE environ[v]]
  /\ phase' = "open"
  /\ UNCHANGED <<launch, port, dir, store, token, zone, clock, data, history>>

(* The store and the database are opened and keep what they have: tables   *)
(* are created IF NOT EXISTS.  With s3 nothing stands in for a directory   *)
(* that is "", and NewStorage cannot make it.                              *)
OpenStorage ==
  /\ phase = "open"
  /\ \/ /\ Getenv(environ, "STORAGE_TYPE") = <<"s3">>
        /\ Getenv(environ, "AWS_BUCKET") # <<>> /\ dir # <<>>
        /\ UNCHANGED dir
        /\ store' = <<"s3", Getenv(environ, "AWS_BUCKET")>>
     \/ /\ Getenv(environ, "STORAGE_TYPE") # <<"s3">>
        /\ dir' = LocalDir(dir, environ)
        /\ store' = <<"local", dir'>>
  /\ phase' = "routes"
  /\ UNCHANGED <<launch, environ, port, token, zone, clock, data, history>>

(* The token is read, the port gets its colon, and requests are served.    *)
Listen ==
  /\ phase = "routes"
  /\ token' = Getenv(environ, "REGISTRATION_TOKEN")
  /\ port' = IF Head(port) # ":" THEN <<":">> \o port ELSE port
  /\ phase' = "serving"
  /\ UNCHANGED <<launch, environ, dir, store, zone, clock, data, history>>

(* log.Fatalf: no bucket for s3, a directory or store that cannot be       *)
(* opened, a port in use; or the process is killed.                        *)
Exit ==
  /\ phase # "down"
  /\ phase' = "down" /\ launch' = Unset /\ environ' = Unset
  /\ port' = <<>> /\ dir' = <<>> /\ store' = Unset /\ token' = <<>>
  /\ UNCHANGED <<zone, clock, data, history>>

-----------------------------------------------------------------------------
(* Requests. *)

(* The mux of NewServer; other methods are answered 405. *)
Mux == [ping |-> {"GET"}, users |-> {"GET", "POST"},
        challenge |-> {"GET"}, login |-> {"POST"},
        files |-> {"GET", "POST", "DELETE"}, download |-> {"GET"}]

Serves(path, method) == phase = "serving" /\ method \in Mux[path]

(* RegisterUser lets in a request with registration token t. *)
Registers(t) == Serves("users", "POST") /\ (token # <<>> => t = token)

UploadFile(f) ==
  /\ Serves("files", "POST") /\ sent[f] = Unset
  /\ blobs' = [blobs EXCEPT ![store] = @ \cup {f}]
  /\ rows' = [rows EXCEPT ![dir] = @ \cup {f}]
  /\ stamp' = [stamp EXCEPT ![f] = Text(clock, zone)]
  /\ sent' = [sent EXCEPT ![f] =
       [place |-> Place(launch), time |-> clock, zone |-> zone]]
  /\ UNCHANGED <<process, zone, clock, deleted, elsewhere>>

(* DownloadFile finds row and content. *)
Downloads(f) ==
  Serves("download", "GET") /\ f \in rows[dir] /\ f \in blobs[store]

(* That there is no content to delete is no error. *)
DeleteFile(f) ==
  /\ Serves("files", "DELETE") /\ f \in rows[dir]
  /\ blobs' = [blobs EXCEPT ![store] = @ \ {f}]
  /\ rows' = [rows EXCEPT ![dir] = @ \ {f}]
  /\ deleted' = deleted \cup {f}
  /\ elsewhere' = IF store = sent[f].place.store THEN elsewhere
                                                 ELSE elsewhere \cup {f}
  /\ UNCHANGED <<process, zone, clock, stamp, sent>>

Tick ==
  /\ clock' \in Instants /\ clock' > clock
  /\ UNCHANGED <<process, zone, data, history>>

(* Daylight saving time begins or ends, or TZ is changed. *)
ChangeZone(z) ==
  /\ z # zone /\ zone' = z
  /\ UNCHANGED <<process, clock, data, history>>

-----------------------------------------------------------------------------
Next ==
  \/ \E l \in Launches : Launch(l)
  \/ Main \/ LoadDotenv \/ OpenStorage \/ Listen \/ Exit
  \/ \E f \in Files : UploadFile(f) \/ DeleteFile(f)
  \/ Tick
  \/ \E z \in Zones : ChangeZone(z)

Spec == Init /\ [][Next]_vars

-----------------------------------------------------------------------------
(* A server that serves does so on the port, with the store and behind the *)
(* registration token that its flags, its environment and its .env file    *)
(* give, in this order; only the default of the port is left open.         *)
SettingsHonoured ==
  phase = "serving" =>
    /\ PortSetting(launch) # <<>> => Last(port) = Last(PortSetting(launch))
    /\ [dir |-> dir, store |-> store] = Place(launch)
    /\ \A t \in {Setting(l, "REGISTRATION_TOKEN") : l \in Launches} :
         Registers(t) <=> Setting(launch, "REGISTRATION_TOKEN") \in {<<>>, t}

(* A file can be downloaded from every later launch whose settings name    *)
(* the directory and the store of its upload, whatever servers ran in      *)
(* between and wherever each of them found its settings.                   *)
FilesSurviveRestart ==
  \A f \in Files :
    /\ phase = "serving" /\ sent[f] # Unset /\ f \notin deleted
    /\ sent[f].place = Place(launch)
    => Downloads(f)

(* A deletion leaves no content behind, unless it was made by a launch     *)
(* with another storage type or bucket than the upload: the row then goes  *)
(* and the content stays where it is, in a store that this launch does not *)
(* use and a later one may use again, without a row for it.                *)
LeftoverOnlyAfterSwitch ==
  \A f \in deleted : (\E s \in Stores : f \in blobs[s]) => f \in elsewhere

(* A list has the newest file first, as long as the UTC offset of local    *)
(* time was the same, although it is ordered by texts of differing length. *)
ListedNewestFirst ==
  \A d \in Dirs : \A list \in Listings(d) : \A i, j \in DOMAIN list :
    i < j /\ sent[list[i]].zone = sent[list[j]].zone
      => sent[list[i]].time >= sent[list[j]].time
=============================================================================
