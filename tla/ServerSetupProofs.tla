------------------------- MODULE ServerSetupProofs -------------------------
(***************************************************************************)
(* Proofs that ServerSetup keeps its safety properties for all launches,   *)
(* files, zones and times.                                                 *)
(***************************************************************************)
EXTENDS ServerSetup, FiniteSetTheorems, WellFoundedInduction, TLAPS

-----------------------------------------------------------------------------
(* The inductive invariant.  What the process knows at each phase:         *)
Chosen == {"load", "open", "routes", "serving"}

ProcessInv ==
  /\ phase \in {"down", "main"} \cup Chosen
  /\ launch \in Launches \cup {Unset}
  /\ phase # "down" => launch \in Launches
  /\ phase \in {"main", "load"} => environ = launch.env
  /\ phase \in {"open", "routes", "serving"} => environ = Merged(launch)
  /\ phase \in Chosen => port \in Words /\ port # <<>>
  /\ phase \in {"load", "open"} => dir = ArgOf(launch)
  /\ phase \in {"routes", "serving"} =>
       dir = DirOf(launch) /\ store = Place(launch).store /\ store \in Stores
  /\ phase = "serving" =>
       /\ Head(port) = ":"
       /\ token = Setting(launch, "REGISTRATION_TOKEN")

(* and the port, as far as it is not in the .env file alone. *)
PortInv ==
  phase \in Chosen /\ PortSetting(launch) # <<>>
    => Last(port) = Last(PortSetting(launch))

(* The data, which outlive the process. *)
DataType ==
  /\ zone \in Zones /\ clock \in Instants
  /\ rows \in [Dirs -> SUBSET Files]
  /\ blobs \in [Stores -> SUBSET Files]
  /\ stamp \in [Files -> Seq(Int)]
  /\ sent \in [Files -> Upload \cup {Unset}]
  /\ elsewhere \subseteq deleted /\ deleted \subseteq Files

(* Rows and content are only where their upload put them, and are there    *)
(* until it is deleted.                                                    *)
FileInv ==
  \A f \in Files :
    /\ f \in deleted => sent[f] # Unset
    /\ \A d \in Dirs : f \in rows[d] => sent[f] # Unset
    /\ \A s \in Stores :
         f \in blobs[s] => sent[f] # Unset /\ s = sent[f].place.store
    /\ sent[f] # Unset /\ f \notin deleted =>
         f \in rows[sent[f].place.dir] /\ f \in blobs[sent[f].place.store]
    /\ f \in deleted \ elsewhere =>
         \A s \in Stores : f \notin blobs[s]

(* The timestamp of a file tells when and at which offset it was sent; the *)
(* tables are finite.                                                      *)
StampInv ==
  \A f \in Files :
    sent[f] # Unset => stamp[f] = Text(sent[f].time, sent[f].zone)

RowsInv == \A d \in Dirs : IsFiniteSet(rows[d])

IInv == ProcessInv /\ DataType /\ FileInv /\ StampInv /\ RowsInv

-----------------------------------------------------------------------------
(* The settings of a launch are words, and its directory is a directory.   *)
LEMMA Settings ==
  ASSUME NEW l \in Launches
  PROVE  /\ l.port \in Words /\ DirOf(l) \in Dirs
         /\ Merged(l) \in Environments
         /\ \A v \in Variables : Getenv(l.env, v) \in Words
         /\ \A v \in Variables : Setting(l, v) \in Words
<1>1. l.port \in Words /\ l.env \in Environments /\ l.dotenv \in Environments
  BY LaunchesAssumption
<1>2. Merged(l) \in Environments
  BY <1>1 DEF Merged, Environments
<1>3. <<>> \in Words
  BY DEF Words
<1>. QED
  BY <1>1, <1>2, <1>3 DEF Dirs, Setting, Getenv, Environments

(* The parts of a text, and a text, are sequences of numbers. *)
LEMMA FractionType ==
  ASSUME NEW t \in Nat
  PROVE  Fraction(t) \in Seq(Int)
<1>1. (t % 100) \div 10 \in Int /\ (t % 100) % 10 \in Int
  OBVIOUS
<1>. QED
  BY <1>1 DEF Fraction

LEMMA OffsetType ==
  ASSUME NEW z \in Zones
  PROVE  Offset(z) \in Seq(Int)
BY BoundsAssumption DEF Offset

LEMMA TextType ==
  ASSUME NEW t \in Nat, NEW z \in Zones
  PROVE  Text(t, z) \in Seq(Int)
BY FractionType, OffsetType, BoundsAssumption DEF Text

LEMMA InitEstablishes == Init => IInv
<1>. SUFFICES ASSUME Init PROVE IInv
  OBVIOUS
<1>1. ProcessInv
  BY DEF Init, ProcessInv, Chosen
<1>2. DataType
  BY DEF Init, DataType
<1>3. FileInv
  BY DEF Init, FileInv
<1>4. StampInv /\ RowsInv
  BY FS_EmptySet DEF Init, StampInv, RowsInv
<1>. QED
  BY <1>1, <1>2, <1>3, <1>4 DEF IInv

-----------------------------------------------------------------------------
(* The process gets from phase to phase as its settings say. *)
LEMMA ProcessStep ==
  ASSUME IInv, Next
  PROVE  ProcessInv'
<1>. USE DEF ProcessInv, Chosen
<1>0. ProcessInv
  BY DEF IInv
<1>1. ASSUME NEW l \in Launches, Launch(l)
      PROVE  ProcessInv'
  BY <1>0, <1>1 DEF Launch
<1>2. CASE Main
  <2>1. launch \in Launches /\ environ = launch.env
    BY <1>0, <1>2 DEF Main
  <2>2. Getenv(environ, "PORT") \in Words /\ launch.port \in Words
    BY <2>1, Settings DEF Variables
  <2>3. DefaultServerPort \in Words /\ DefaultServerPort # <<>>
    BY WordAssumption DEF DefaultServerPort, Words
  <2>4. port' \in Words /\ port' # <<>>
    BY <1>2, <2>2, <2>3 DEF Main
  <2>. QED
    BY <1>0, <1>2, <2>1, <2>4 DEF Main
<1>3. CASE LoadDotenv
  <2>1. environ' = Merged(launch)
    BY <1>0, <1>3 DEF LoadDotenv, Merged
  <2>. QED
    BY <1>0, <1>3, <2>1 DEF LoadDotenv
<1>4. CASE OpenStorage
  <2>1. launch \in Launches /\ environ = Merged(launch) /\ dir = ArgOf(launch)
    BY <1>0, <1>4 DEF OpenStorage
  <2>2. DirOf(launch) \in Dirs
    BY <2>1, Settings
  <2>3. dir' = DirOf(launch) /\ store' = Place(launch).store
    <3>1. dir # <<>> => DirOf(launch) = dir
      BY <2>1 DEF DirOf, LocalDir
    <3>2. DirOf(launch) = LocalDir(dir, environ)
      BY <2>1 DEF DirOf
    <3>. QED
      BY <1>4, <2>1, <3>1, <3>2 DEF OpenStorage, Place, Setting
  <2>4. store' \in Stores
    <3>1. CASE Getenv(environ, "STORAGE_TYPE") = <<"s3">>
      BY <1>4, <2>1, <3>1 DEF OpenStorage, Stores, Buckets
    <3>2. CASE Getenv(environ, "STORAGE_TYPE") # <<"s3">>
      <4>1. store' = <<"local", dir'>>
        BY <1>4, <3>2 DEF OpenStorage
      <4>. QED
        BY <2>2, <2>3, <4>1 DEF Stores
    <3>. QED
      BY <3>1, <3>2
  <2>. QED
    BY <1>0, <1>4, <2>3, <2>4 DEF OpenStorage
<1>5. CASE Listen
  <2>1. token' = Setting(launch, "REGISTRATION_TOKEN")
    BY <1>0, <1>5 DEF Listen, Setting
  <2>2. port \in Words /\ port # <<>>
    BY <1>0, <1>5 DEF Listen
  <2>3. port' \in Words /\ port' # <<>> /\ Head(port') = ":"
    BY <1>5, <2>2, WordAssumption DEF Listen, Words
  <2>. QED
    BY <1>0, <1>5, <2>1, <2>3 DEF Listen
<1>6. CASE Exit
  BY <1>6 DEF Exit
<1>7. CASE UNCHANGED process
  BY <1>0, <1>7 DEF process
<1>. QED
  BY <1>1, <1>2, <1>3, <1>4, <1>5, <1>6, <1>7
  DEF Next, UploadFile, DeleteFile, Tick, ChangeZone

(* The data keep their types. *)
LEMMA DataTypeStep ==
  ASSUME IInv, Next
  PROVE  DataType'
<1>. USE DEF DataType
<1>0. DataType
  BY DEF IInv
<1>1. ASSUME NEW f \in Files, UploadFile(f)
      PROVE  DataType'
  <2>1. launch \in Launches /\ dir \in Dirs /\ store \in Stores
        /\ dir = DirOf(launch) /\ store = Place(launch).store
    BY <1>1, Settings DEF IInv, ProcessInv, Chosen, UploadFile, Serves
  <2>2. Place(launch) = [dir |-> dir, store |-> store]
    BY <2>1 DEF Place
  <2>3. [place |-> Place(launch), time |-> clock, zone |-> zone] \in Upload
    BY <1>0, <2>1, <2>2 DEF Upload
  <2>4. Text(clock, zone) \in Seq(Int)
    BY <1>0, BoundsAssumption, TextType
  <2>. QED
    BY <1>0, <1>1, <2>1, <2>3, <2>4 DEF UploadFile
<1>2. ASSUME NEW f \in Files, DeleteFile(f)
      PROVE  DataType'
  BY <1>0, <1>2 DEF DeleteFile
<1>3. CASE Tick
  BY <1>0, <1>3, BoundsAssumption DEF Tick, data, history
<1>4. ASSUME NEW z \in Zones, ChangeZone(z)
      PROVE  DataType'
  BY <1>0, <1>4 DEF ChangeZone, data, history
<1>5. CASE UNCHANGED <<zone, clock, data, history>>
  BY <1>0, <1>5 DEF data, history
<1>. QED
  BY <1>1, <1>2, <1>3, <1>4, <1>5
  DEF Next, Launch, Main, LoadDotenv, OpenStorage, Listen, Exit

(* Content and rows stay where they were put. *)
LEMMA FileStep ==
  ASSUME IInv, Next
  PROVE  FileInv'
<1>0. FileInv /\ DataType
  BY DEF IInv
<1>1. ASSUME NEW f \in Files, UploadFile(f)
      PROVE  FileInv'
  <2>1. launch \in Launches /\ dir \in Dirs /\ store \in Stores
        /\ Place(launch) = [dir |-> dir, store |-> store]
    BY <1>1, Settings DEF IInv, ProcessInv, Chosen, UploadFile, Serves, Place
  <2> DEFINE u == [place |-> Place(launch), time |-> clock, zone |-> zone]
  <2>u. u \in Upload
    BY <1>0, <2>1 DEF DataType, Upload
  <2>2. sent'[f] # Unset /\ sent'[f].place.dir = dir
        /\ sent'[f].place.store = store
    <3>1. sent'[f] = u
      BY <1>0, <1>1 DEF UploadFile, DataType
    <3>. QED
      BY <2>1, <2>u, <3>1, UnsetAssumption
  <2>3. f \notin deleted /\ f \notin deleted'
    BY <1>0, <1>1 DEF UploadFile, FileInv
  <2>4. f \in rows'[dir] /\ f \in blobs'[store]
    BY <1>0, <1>1, <2>1 DEF UploadFile, DataType
  <2>5. ASSUME NEW s \in Stores, f \in blobs'[s]
        PROVE  s = store
    BY <1>0, <1>1, <2>1, <2>5 DEF UploadFile, DataType, FileInv
  <2>6. ASSUME NEW g \in Files \ {f}
        PROVE  /\ sent'[g] = sent[g]
               /\ \A d \in Dirs : g \in rows'[d] <=> g \in rows[d]
               /\ \A s \in Stores : g \in blobs'[s] <=> g \in blobs[s]
               /\ g \in deleted' <=> g \in deleted
               /\ g \in elsewhere' <=> g \in elsewhere
    BY <1>0, <1>1, <2>1, <2>6 DEF UploadFile, DataType
  <2>7. \A g \in Files \ {f} : sent[g] # Unset =>
          sent[g].place.dir \in Dirs /\ sent[g].place.store \in Stores
    BY <1>0 DEF DataType, Upload
  <2>. QED
    BY <1>0, <2>2, <2>3, <2>4, <2>5, <2>6, <2>7 DEF FileInv
<1>2. ASSUME NEW f \in Files, DeleteFile(f)
      PROVE  FileInv'
  <2>1. dir \in Dirs /\ store \in Stores
    BY <1>2, Settings DEF IInv, ProcessInv, Chosen, DeleteFile, Serves
  <2>2. sent[f] # Unset /\ sent' = sent /\ f \in deleted'
    BY <1>0, <1>2, <2>1 DEF DeleteFile, FileInv
  <2>3. ASSUME NEW s \in Stores, f \in blobs'[s]
        PROVE  s = sent[f].place.store /\ f \in elsewhere'
    BY <1>0, <1>2, <2>1, <2>3 DEF DeleteFile, DataType, FileInv
  <2>4. \A d \in Dirs : f \in rows'[d] => sent[f] # Unset
    BY <2>2
  <2>5. ASSUME NEW g \in Files \ {f}
        PROVE  /\ \A d \in Dirs : g \in rows'[d] <=> g \in rows[d]
               /\ \A s \in Stores : g \in blobs'[s] <=> g \in blobs[s]
               /\ g \in deleted' <=> g \in deleted
               /\ g \in elsewhere' <=> g \in elsewhere
    BY <1>0, <1>2, <2>1, <2>5 DEF DeleteFile, DataType
  <2>7. \A g \in Files \ {f} : sent[g] # Unset =>
          sent[g].place.dir \in Dirs /\ sent[g].place.store \in Stores
    BY <1>0 DEF DataType, Upload
  <2>. QED
    BY <1>0, <2>2, <2>3, <2>4, <2>5, <2>7 DEF FileInv
<1>3. CASE UNCHANGED <<data, history>>
  BY <1>0, <1>3 DEF data, history, FileInv
<1>. QED
  BY <1>1, <1>2, <1>3
  DEF Next, Launch, Main, LoadDotenv, OpenStorage, Listen, Exit, Tick,
      ChangeZone

(* A timestamp is written once, together with its row. *)
LEMMA StampStep ==
  ASSUME IInv, Next
  PROVE  StampInv' /\ RowsInv'
<1>0. FileInv /\ DataType /\ StampInv /\ RowsInv
  BY DEF IInv
<1>1. ASSUME NEW f \in Files, UploadFile(f)
      PROVE  StampInv' /\ RowsInv'
  <2> DEFINE u == [place |-> Place(launch), time |-> clock, zone |-> zone]
  <2>1. sent'[f] = u /\ stamp'[f] = Text(u.time, u.zone)
    BY <1>0, <1>1 DEF UploadFile, DataType
  <2>2. \A g \in Files \ {f} : sent'[g] = sent[g] /\ stamp'[g] = stamp[g]
    BY <1>0, <1>1 DEF UploadFile, DataType
  <2> HIDE DEF u
  <2>3. StampInv'
    BY <1>0, <2>1, <2>2 DEF StampInv
  <2>4. \A d \in Dirs : rows'[d] \in {rows[d], rows[d] \cup {f}}
    BY <1>0, <1>1 DEF UploadFile, DataType
  <2>5. RowsInv'
    BY <1>0, <2>4, FS_AddElement DEF RowsInv
  <2>. QED
    BY <2>3, <2>5
<1>2. ASSUME NEW f \in Files, DeleteFile(f)
      PROVE  StampInv' /\ RowsInv'
  <2>1. StampInv'
    BY <1>0, <1>2 DEF DeleteFile, StampInv
  <2>2. \A d \in Dirs : rows'[d] \in {rows[d], rows[d] \ {f}}
    BY <1>0, <1>2 DEF DeleteFile, DataType
  <2>3. RowsInv'
    BY <1>0, <2>2, FS_RemoveElement DEF RowsInv
  <2>. QED
    BY <2>1, <2>3
<1>3. CASE UNCHANGED <<data, history>>
  BY <1>0, <1>3 DEF data, history, StampInv, RowsInv
<1>. QED
  BY <1>1, <1>2, <1>3
  DEF Next, Launch, Main, LoadDotenv, OpenStorage, Listen, Exit, Tick,
      ChangeZone

LEMMA Invariance == Spec => []IInv
<1>1. ASSUME IInv, [Next]_vars
      PROVE  IInv'
  <2>1. CASE Next
    BY <1>1, <2>1, ProcessStep, DataTypeStep, FileStep, StampStep DEF IInv
  <2>2. CASE UNCHANGED vars
    BY <1>1, <2>2
    DEF vars, process, data, history, IInv, ProcessInv, DataType, FileInv,
        StampInv, RowsInv
  <2>. QED
    BY <1>1, <2>1, <2>2
<1>. QED
  BY InitEstablishes, <1>1, PTL DEF Spec

-----------------------------------------------------------------------------
(* A server that serves does so from a directory and a store that were     *)
(* opened, and every variable has its type (TypeOK).                       *)
THEOREM TypeCorrect == Spec => []TypeOK
<1>1. IInv => TypeOK
  <2>. SUFFICES ASSUME IInv PROVE TypeOK
    OBVIOUS
  <2>1. phase # "down" => launch \in Launches /\ DOMAIN environ = Variables
    <3>1. \A l \in Launches : DOMAIN l.env = Variables
                              /\ DOMAIN Merged(l) = Variables
      BY LaunchesAssumption DEF Environments, Merged
    <3>. QED
      BY <3>1 DEF IInv, ProcessInv, Chosen
  <2>2. phase \in {"routes", "serving"} => dir \in Dirs /\ store \in Stores
    BY Settings DEF IInv, ProcessInv, Chosen
  <2>. QED
    BY <2>1, <2>2 DEF IInv, ProcessInv, Chosen, DataType, TypeOK
<1>. QED
  BY Invariance, <1>1, PTL

(* A file can be downloaded from every later launch whose settings name    *)
(* the directory and the store of its upload (FilesSurviveRestart).        *)
THEOREM Survival == Spec => []FilesSurviveRestart
<1>1. IInv => FilesSurviveRestart
  <2>. SUFFICES ASSUME IInv, NEW f \in Files, phase = "serving",
                       sent[f] # Unset, f \notin deleted,
                       sent[f].place = Place(launch)
                PROVE  Downloads(f)
    BY DEF FilesSurviveRestart
  <2>1. Place(launch).dir = dir /\ Place(launch).store = store
    BY DEF IInv, ProcessInv, Chosen, Place
  <2>2. f \in rows[dir] /\ f \in blobs[store]
    BY <2>1 DEF IInv, FileInv
  <2>. QED
    BY <2>2 DEF Downloads, Serves, Mux
<1>. QED
  BY Invariance, <1>1, PTL

(* A deletion leaves content behind only if it was made by a launch with   *)
(* another store than the upload (LeftoverOnlyAfterSwitch).                *)
THEOREM Leftovers == Spec => []LeftoverOnlyAfterSwitch
<1>1. IInv => LeftoverOnlyAfterSwitch
  BY DEF IInv, DataType, FileInv, LeftoverOnlyAfterSwitch
<1>. QED
  BY Invariance, <1>1, PTL

-----------------------------------------------------------------------------
(* The order of texts is strict. *)
LEMMA TextOrderIsStrict ==
  ASSUME NEW a \in Seq(Int), NEW b \in Seq(Int), NEW i \in DOMAIN b,
         i \in DOMAIN a, a[i] < b[i],
         \A j \in 1..(i - 1) : a[j] = b[j]
  PROVE  TextLess(a, b) /\ ~TextLess(b, a)
<1>1. i \in 1..Len(a) /\ i \in 1..Len(b)
  OBVIOUS
<1>2. TextLess(a, b)
  BY <1>1 DEF TextLess
<1>3. ASSUME NEW k \in DOMAIN a,
             \A j \in 1..(k - 1) : j \in DOMAIN b /\ b[j] = a[j],
             k \in DOMAIN b => b[k] < a[k]
      PROVE  FALSE
  <2>1. k \in 1..Len(a)
    OBVIOUS
  <2>2. CASE k < i
    <3>1. k \in 1..(i - 1) /\ k \in DOMAIN b
      BY <1>1, <2>1, <2>2
    <3>2. a[k] = b[k] /\ a[k] \in Int
      BY <3>1
    <3>. QED
      BY <1>3, <3>1, <3>2
  <2>3. CASE k = i
    BY <1>3, <2>3
  <2>4. CASE k > i
    <3>1. i \in 1..(k - 1)
      BY <1>1, <2>1, <2>4
    <3>2. b[i] = a[i]
      BY <1>3, <3>1
    <3>. QED
      BY <3>2
  <2>. QED
    BY <1>1, <2>1, <2>2, <2>3, <2>4
<1>. QED
  BY <1>2, <1>3 DEF TextLess

(* Where the parts of a joined sequence are. *)
LEMMA Joined ==
  ASSUME NEW d \in Int, NEW f \in Seq(Int), NEW o \in Seq(Int),
         NEW x, x = (<<d>> \o f) \o o
  PROVE  /\ x \in Seq(Int) /\ Len(x) = 1 + Len(f) + Len(o)
         /\ x[1] = d
         /\ \A i \in 1..Len(f) : x[i + 1] = f[i]
         /\ \A i \in 1..Len(o) : x[1 + Len(f) + i] = o[i]
<1>1. x \in Seq(Int)
  OBVIOUS
<1>2. x[1] = d /\ Len(x) = 1 + Len(f) + Len(o)
  OBVIOUS
<1>3. \A i \in 1..Len(f) : x[i + 1] = f[i]
  OBVIOUS
<1>4. \A i \in 1..Len(o) : x[1 + Len(f) + i] = o[i]
  OBVIOUS
<1>. QED
  BY <1>1, <1>2, <1>3, <1>4

(* The characters of a text: seconds, fraction, and a sign. *)
LEMMA TextParts ==
  ASSUME NEW t \in Nat, NEW z \in Zones
  PROVE  LET x == Text(t, z)
             n == Len(Fraction(t))
         IN  /\ x \in Seq(Int) /\ Len(x) = n + 3
             /\ x[1] = t \div 100 + z
             /\ \A i \in 1..n : x[i + 1] = Fraction(t)[i]
             /\ x[n + 2] \in {43, 45}
<1> DEFINE f == Fraction(t)
           o == Offset(z)
           d == t \div 100 + z
           x == Text(t, z)
<1>1. f \in Seq(Int) /\ o \in Seq(Int) /\ d \in Int
  BY FractionType, OffsetType, BoundsAssumption
<1>2. Len(o) = 2 /\ o[1] \in {43, 45}
  BY BoundsAssumption DEF Offset
<1>3. x = (<<d>> \o f) \o o
  BY DEF Text
<1> HIDE DEF f, o, d, x
<1>4. /\ x \in Seq(Int) /\ Len(x) = 1 + Len(f) + Len(o)
      /\ x[1] = d
      /\ \A i \in 1..Len(f) : x[i + 1] = f[i]
      /\ \A i \in 1..Len(o) : x[1 + Len(f) + i] = o[i]
  BY <1>1, <1>3, Joined
<1>5. Len(f) \in Nat
  BY <1>1
<1>6. Len(x) = Len(f) + 3
  BY <1>2, <1>4, <1>5
<1>7. x[Len(f) + 2] \in {43, 45}
  <2>1. 1 \in 1..Len(o) /\ 1 + Len(f) + 1 = Len(f) + 2
    BY <1>2, <1>5
  <2>2. x[1 + Len(f) + 1] = o[1]
    BY <1>4, <2>1
  <2>. QED
    BY <1>2, <2>1, <2>2
<1>. QED
  BY <1>4, <1>6, <1>7 DEF x, f, d

(* After the seconds text x has a fraction with the digits c and d. *)
Shows(x, c, d) ==
  /\ Len(x) >= 3
  /\ c = 0 /\ d = 0 => x[2] \in {43, 45}
  /\ c # 0 \/ d # 0 => Len(x) >= 5 /\ x[2] = 46 /\ x[3] = 48 + c
  /\ c # 0 /\ d = 0 => x[4] \in {43, 45}
  /\ d # 0 => x[4] = 48 + d

(* The digits of an instant. *)
Tens(t) == (t % 100) \div 10
Units(t) == (t % 100) % 10

LEMMA Digits ==
  ASSUME NEW t \in Nat
  PROVE  /\ t \div 100 \in Nat /\ Tens(t) \in 0..9 /\ Units(t) \in 0..9
         /\ t = 100 * (t \div 100) + 10 * Tens(t) + Units(t)
<1>1. ASSUME NEW h \in 0..99
      PROVE  h \div 10 \in 0..9 /\ h % 10 \in 0..9
             /\ h = 10 * (h \div 10) + (h % 10)
  OBVIOUS
<1>2. t % 100 \in 0..99 /\ t \div 100 \in Nat
      /\ t = 100 * (t \div 100) + (t % 100)
  OBVIOUS
<1>. QED
  BY <1>1, <1>2 DEF Tens, Units

LEMMA FractionParts ==
  ASSUME NEW t \in Nat
  PROVE  LET c == Tens(t)
             d == Units(t)
         IN  Fraction(t) = IF c = 0 /\ d = 0 THEN <<>>
                           ELSE IF d = 0 THEN <<46, 48 + c>>
                                         ELSE <<46, 48 + c, 48 + d>>
<1>1. /\ Tens(t) \in Int /\ Units(t) \in Int
      /\ t % 100 = 0 <=> Tens(t) = 0 /\ Units(t) = 0
  <2>1. ASSUME NEW h \in 0..99
        PROVE  h = 0 <=> h \div 10 = 0 /\ h % 10 = 0
    OBVIOUS
  <2>2. t % 100 \in 0..99
    OBVIOUS
  <2>. QED
    BY <2>1, <2>2, Digits DEF Tens, Units
<1>. QED
  BY <1>1 DEF Fraction, Tens, Units

LEMMA TextShows ==
  ASSUME NEW t \in Nat, NEW z \in Zones
  PROVE  Shows(Text(t, z), Tens(t), Units(t))
<1> DEFINE x == Text(t, z)
           f == Fraction(t)
           c == Tens(t)
           d == Units(t)
<1>1. /\ Len(x) = Len(f) + 3
      /\ \A i \in 1..Len(f) : x[i + 1] = f[i]
      /\ x[Len(f) + 2] \in {43, 45}
  BY TextParts
<1>2. /\ c = 0 /\ d = 0 => f = <<>>
      /\ c # 0 /\ d = 0 => f = <<46, 48 + c>>
      /\ d # 0 => f = <<46, 48 + c, 48 + d>>
  BY FractionParts
<1>3. c \in Int /\ d \in Int
  BY Digits
<1>4. x \in Seq(Int)
  BY TextParts
<1> HIDE DEF x, f, c, d
<1>. SUFFICES Shows(x, c, d)
  BY DEF x, c, d
<1>5. CASE c = 0 /\ d = 0
  <2>1. Len(f) = 0
    BY <1>2, <1>5
  <2>2. x[2] \in {43, 45} /\ Len(x) = 3
    BY <1>1, <2>1
  <2>. QED
    BY <1>3, <1>4, <1>5, <2>2 DEF Shows
<1>6. CASE c # 0 /\ d = 0
  <2>1. Len(f) = 2 /\ f[1] = 46 /\ f[2] = 48 + c
    BY <1>2, <1>3, <1>6
  <2>2. 1 \in 1..Len(f) /\ 2 \in 1..Len(f) /\ 1 + 1 = 2 /\ 2 + 1 = 3
    BY <2>1
  <2>3. x[2] = 46 /\ x[3] = 48 + c /\ x[4] \in {43, 45} /\ Len(x) = 5
    BY <1>1, <2>1, <2>2
  <2>. QED
    BY <1>3, <1>4, <1>6, <2>3 DEF Shows
<1>7. CASE d # 0
  <2>1. Len(f) = 3 /\ f[1] = 46 /\ f[2] = 48 + c /\ f[3] = 48 + d
    BY <1>2, <1>3, <1>7
  <2>2. /\ 1 \in 1..Len(f) /\ 2 \in 1..Len(f) /\ 3 \in 1..Len(f)
        /\ 1 + 1 = 2 /\ 2 + 1 = 3 /\ 3 + 1 = 4
    BY <2>1
  <2>3. x[2] = 46 /\ x[3] = 48 + c /\ x[4] = 48 + d /\ Len(x) = 6
    BY <1>1, <2>1, <2>2
  <2>. QED
    BY <1>3, <1>4, <1>7, <2>3 DEF Shows
<1>. QED
  BY <1>5, <1>6, <1>7

(* The order of two texts is decided by their first four characters, if    *)
(* these differ.                                                           *)
LEMMA DecidedBy ==
  ASSUME NEW a \in Seq(Int), NEW b \in Seq(Int), NEW i \in 1..4,
         i <= Len(a), i <= Len(b), a[i] < b[i],
         i > 1 => a[1] = b[1], i > 2 => a[2] = b[2], i > 3 => a[3] = b[3]
  PROVE  TextLess(a, b) /\ ~TextLess(b, a)
<1>1. i \in DOMAIN a /\ i \in DOMAIN b
  OBVIOUS
<1>2. \A j \in 1..(i - 1) : j \in {1, 2, 3} /\ j < i
  OBVIOUS
<1>3. \A j \in 1..(i - 1) : a[j] = b[j]
  BY <1>2
<1>. QED
  BY <1>1, <1>3, TextOrderIsStrict

(* Texts are ordered like their seconds and digits: a digit comes after a  *)
(* point, and a point after a sign.                                        *)
LEMMA ShownInOrder ==
  ASSUME NEW a \in Seq(Int), NEW c \in 0..9, NEW d \in 0..9,
         NEW b \in Seq(Int), NEW e \in 0..9, NEW g \in 0..9
  PROVE  Shows(a, c, d) /\ Shows(b, e, g)
         /\ (\/ a[1] < b[1]
             \/ a[1] = b[1] /\ c < e
             \/ a[1] = b[1] /\ c = e /\ d < g)
         => TextLess(a, b) /\ ~TextLess(b, a)
<1> DEFINE Less == TextLess(a, b) /\ ~TextLess(b, a)
<1>1. ASSUME Shows(a, c, d), Shows(b, e, g)
      PROVE  /\ Len(a) >= 3 /\ Len(b) >= 3
             /\ c = 0 /\ d = 0 => a[2] \in {43, 45}
             /\ c # 0 \/ d # 0 => Len(a) >= 5 /\ a[2] = 46 /\ a[3] = 48 + c
             /\ e # 0 \/ g # 0 => Len(b) >= 5 /\ b[2] = 46 /\ b[3] = 48 + e
             /\ c # 0 /\ d = 0 => a[4] \in {43, 45}
             /\ d # 0 => a[4] = 48 + d
             /\ g # 0 => b[4] = 48 + g
  BY <1>1 DEF Shows
<1>2. ASSUME Len(a) >= 3, Len(b) >= 3, a[1] < b[1]
      PROVE  Less
  <2>1. 1 \in 1..4 /\ 1 <= Len(a) /\ 1 <= Len(b)
    BY <1>2
  <2>. QED
    BY <1>2, <2>1, DecidedBy
<1>3. ASSUME Len(a) >= 3, Len(b) >= 3, a[1] = b[1], a[2] < b[2]
      PROVE  Less
  <2>1. 2 \in 1..4 /\ 2 <= Len(a) /\ 2 <= Len(b)
    BY <1>3
  <2>. QED
    BY <1>3, <2>1, DecidedBy
<1>4. ASSUME Len(a) >= 5, Len(b) >= 5, a[1] = b[1], a[2] = b[2], a[3] < b[3]
      PROVE  Less
  <2>1. 3 \in 1..4 /\ 3 <= Len(a) /\ 3 <= Len(b)
    BY <1>4
  <2>. QED
    BY <1>4, <2>1, DecidedBy
<1>5. ASSUME 4 <= Len(a), 4 <= Len(b), a[1] = b[1], a[2] = b[2], a[3] = b[3],
             a[4] < b[4]
      PROVE  Less
  <2>1. 4 \in 1..4
    OBVIOUS
  <2>. QED
    BY <1>5, <2>1, DecidedBy
<1>6. /\ c < e => e # 0
      /\ d < g => g # 0
      /\ c < e => 48 + c < 48 + e
      /\ \A x : x \in {43, 45} => x < 46 /\ x < 48 + g
      /\ d < g => 48 + d < 48 + g
  OBVIOUS
<1> HIDE DEF Less
<1>7. ASSUME Shows(a, c, d), Shows(b, e, g), a[1] = b[1], c < e
      PROVE  Less
  <2>1. CASE c = 0 /\ d = 0
    <3>1. a[2] < b[2]
      BY <1>1, <1>6, <1>7, <2>1
    <3>. QED
      BY <1>1, <1>3, <1>7, <3>1
  <2>2. CASE c # 0 \/ d # 0
    <3>1. a[2] = b[2] /\ a[3] < b[3] /\ Len(a) >= 5 /\ Len(b) >= 5
      BY <1>1, <1>6, <1>7, <2>2
    <3>. QED
      BY <1>4, <1>7, <3>1
  <2>. QED
    BY <2>1, <2>2
<1>8. ASSUME Shows(a, c, d), Shows(b, e, g), a[1] = b[1], c = e, d < g
      PROVE  Less
  <2>1. CASE c = 0 /\ d = 0
    <3>1. a[2] < b[2]
      BY <1>1, <1>6, <1>8, <2>1
    <3>. QED
      BY <1>1, <1>3, <1>8, <3>1
  <2>2. CASE c # 0 \/ d # 0
    <3>1. a[2] = b[2] /\ a[3] = b[3] /\ Len(a) >= 5 /\ Len(b) >= 5
      BY <1>1, <1>6, <1>8, <2>2
    <3>2. b[4] = 48 + g
      BY <1>1, <1>6, <1>8
    <3>3. a[4] \in {43, 45} \/ a[4] = 48 + d
      BY <1>1, <1>8, <2>2
    <3>4. a[4] < b[4]
      BY <1>6, <1>8, <3>2, <3>3
    <3>5. 4 <= Len(a) /\ 4 <= Len(b)
      BY <3>1
    <3>. QED
      BY <1>5, <1>8, <3>1, <3>4, <3>5
  <2>. QED
    BY <2>1, <2>2
<1>. QED
  BY <1>1, <1>2, <1>7, <1>8 DEF Less

(* Of two timestamps with the same UTC offset the later one has the        *)
(* greater text, whatever digits their fractions are left with: ORDER BY   *)
(* timestamp is the order of time between the changes of the offset.       *)
THEOREM TextsOrderTimes ==
  ASSUME NEW t \in Nat, NEW u \in Nat, NEW z \in Zones, t < u
  PROVE  /\ TextLess(Text(t, z), Text(u, z))
         /\ ~TextLess(Text(u, z), Text(t, z))
<1>1. z \in Int
  BY BoundsAssumption
<1>2. /\ t \div 100 \in Nat /\ Tens(t) \in 0..9 /\ Units(t) \in 0..9
      /\ t = 100 * (t \div 100) + 10 * Tens(t) + Units(t)
      /\ u \div 100 \in Nat /\ Tens(u) \in 0..9 /\ Units(u) \in 0..9
      /\ u = 100 * (u \div 100) + 10 * Tens(u) + Units(u)
  BY Digits
<1>3. \/ t \div 100 < u \div 100
      \/ t \div 100 = u \div 100 /\ Tens(t) < Tens(u)
      \/ t \div 100 = u \div 100 /\ Tens(t) = Tens(u) /\ Units(t) < Units(u)
  BY <1>2
<1>4. /\ t \div 100 + z \in Int /\ u \div 100 + z \in Int
      /\ t \div 100 < u \div 100 => t \div 100 + z < u \div 100 + z
  BY <1>1
<1>5. /\ Text(t, z)[1] = t \div 100 + z /\ Shows(Text(t, z), Tens(t), Units(t))
      /\ Text(u, z)[1] = u \div 100 + z /\ Shows(Text(u, z), Tens(u), Units(u))
  BY TextShows, TextParts
<1>6. Text(t, z) \in Seq(Int) /\ Text(u, z) \in Seq(Int)
  BY TextType
<1> DEFINE a == Text(t, z)
           b == Text(u, z)
           c == Tens(t)
           d == Units(t)
           e == Tens(u)
           g == Units(u)
<1>7. /\ a \in Seq(Int) /\ b \in Seq(Int)
      /\ c \in 0..9 /\ d \in 0..9 /\ e \in 0..9 /\ g \in 0..9
      /\ Shows(a, c, d) /\ Shows(b, e, g)
  BY <1>2, <1>5, <1>6
<1>8. \/ a[1] < b[1]
      \/ a[1] = b[1] /\ c < e
      \/ a[1] = b[1] /\ c = e /\ d < g
  BY <1>3, <1>4, <1>5
<1> HIDE DEF a, b, c, d, e, g
<1>9. TextLess(a, b) /\ ~TextLess(b, a)
  BY <1>7, <1>8, ShownInOrder
<1>. QED
  BY <1>9 DEF a, b

(* Two texts are ordered by the first character in which they differ, so   *)
(* the order is transitive.                                                *)
LEMMA TextOrderTransitive ==
  ASSUME NEW a \in Seq(Int), NEW b \in Seq(Int), NEW c \in Seq(Int),
         TextLess(a, b), TextLess(b, c)
  PROVE  TextLess(a, c)
<1>1. PICK i \in DOMAIN b :
        /\ \A j \in 1..(i - 1) : j \in DOMAIN a /\ a[j] = b[j]
        /\ i \in DOMAIN a => a[i] < b[i]
  BY DEF TextLess
<1>2. PICK k \in DOMAIN c :
        /\ \A j \in 1..(k - 1) : j \in DOMAIN b /\ b[j] = c[j]
        /\ k \in DOMAIN b => b[k] < c[k]
  BY DEF TextLess
<1>3. /\ i \in 1..Len(b) /\ k \in 1..Len(c)
      /\ DOMAIN a = 1..Len(a) /\ DOMAIN b = 1..Len(b) /\ DOMAIN c = 1..Len(c)
      /\ Len(a) \in Nat /\ Len(b) \in Nat /\ Len(c) \in Nat
  BY <1>1, <1>2
<1>4. CASE i <= k
  <2>1. i \in DOMAIN c
    BY <1>3, <1>4
  <2>2. ASSUME NEW j \in 1..(i - 1)
        PROVE  j \in DOMAIN a /\ a[j] = c[j]
    <3>1. j \in 1..(k - 1)
      BY <1>3, <1>4
    <3>. QED
      BY <1>1, <1>2, <3>1
  <2>3. i \in DOMAIN a => a[i] < c[i]
    <3>1. CASE i = k
      <4>1. i \in DOMAIN a => a[i] \in Int /\ b[i] \in Int /\ c[i] \in Int
        BY <1>1, <2>1
      <4>. QED
        BY <1>1, <1>2, <3>1, <4>1
    <3>2. CASE i < k
      <4>1. i \in 1..(k - 1)
        BY <1>3, <3>2
      <4>2. b[i] = c[i]
        BY <1>2, <4>1
      <4>. QED
        BY <1>1, <4>2
    <3>. QED
      BY <1>3, <1>4, <3>1, <3>2
  <2>. QED
    BY <2>1, <2>2, <2>3 DEF TextLess
<1>5. CASE k < i
  <2>1. k \in 1..(i - 1)
    BY <1>3, <1>5
  <2>2. ASSUME NEW j \in 1..(k - 1)
        PROVE  j \in DOMAIN a /\ a[j] = c[j]
    <3>1. j \in 1..(i - 1)
      BY <1>3, <1>5
    <3>. QED
      BY <1>1, <1>2, <3>1
  <2>3. a[k] = b[k] /\ k \in DOMAIN b
    BY <1>1, <1>3, <2>1
  <2>. QED
    BY <1>2, <2>2, <2>3 DEF TextLess
<1>. QED
  BY <1>3, <1>4, <1>5

(* Of finitely many texts one is the greatest: otherwise a smallest set    *)
(* without one had an element that is greater than the greatest of the     *)
(* others.                                                                 *)
LEMMA GreatestText ==
  ASSUME NEW T \in [Files -> Seq(Int)],
         NEW S \in SUBSET Files, IsFiniteSet(S), S # {}
  PROVE  \E g \in S : \A h \in S : ~TextLess(T[g], T[h])
<1> DEFINE Greatest(P) == \E g \in P : \A h \in P : ~TextLess(T[g], T[h])
           Bad == {P \in SUBSET S : P # {} /\ ~Greatest(P)}
<1>0. ASSUME NEW a \in Seq(Int)
      PROVE  ~TextLess(a, a)
  BY DEF TextLess
<1>1. SUFFICES ASSUME S \in Bad
               PROVE  FALSE
  OBVIOUS
<1>2. IsWellFoundedOn(StrictSubsetOrdering(S), FiniteSubsetsOf(S))
  BY FS_StrictSubsetOrderingWellFounded
<1>3. Bad \subseteq FiniteSubsetsOf(S)
  BY FS_FiniteSubsetsOfFinite
<1>4. PICK P \in Bad : \A Q \in Bad : <<Q, P>> \notin StrictSubsetOrdering(S)
  <2> HIDE DEF Bad
  <2>. QED
    BY <1>1, <1>2, <1>3, WFMin
<1>5. \A Q \in SUBSET P : Q # P /\ Q # {} => Greatest(Q)
  <2> SUFFICES ASSUME NEW Q \in SUBSET P, Q # P, Q # {}, ~Greatest(Q)
               PROVE  FALSE
    OBVIOUS
  <2>1. Q \in Bad /\ Q \in SUBSET S /\ P \in SUBSET S
    OBVIOUS
  <2>2. <<Q, P>> \in StrictSubsetOrdering(S)
    BY <2>1 DEF StrictSubsetOrdering
  <2>. QED
    BY <1>4, <2>1, <2>2
<1>6. PICK x \in P : TRUE
  OBVIOUS
<1>7. CASE P = {x}
  BY <1>0, <1>7
<1>8. CASE P # {x}
  <2>0. P \ {x} \in SUBSET P /\ P \ {x} # P /\ P \ {x} # {}
    BY <1>6, <1>8
  <2>1. PICK g \in P \ {x} : \A h \in P \ {x} : ~TextLess(T[g], T[h])
    BY <1>5, <2>0
  <2>2. TextLess(T[g], T[x])
    BY <1>4, <2>1
  <2>3. \A h \in P : ~TextLess(T[x], T[h])
    BY <1>0, <1>6, <2>1, <2>2, TextOrderTransitive
  <2>. QED
    BY <1>4, <1>6, <2>3
<1>. QED
  BY <1>7, <1>8

(* Whatever is in table files, it can be listed: the greatest text comes   *)
(* first, and the others after it.                                         *)
LEMMA ListingExists ==
  ASSUME stamp \in [Files -> Seq(Int)],
         NEW S \in SUBSET Files, IsFiniteSet(S)
  PROVE  \E list \in SetToSeqs(S) : Descends(list)
<1> DEFINE Listed(P) == \E list \in SetToSeqs(P) : Descends(list)
           Bad == {P \in SUBSET S : ~Listed(P)}
<1>1. SUFFICES ASSUME S \in Bad
               PROVE  FALSE
  OBVIOUS
<1>2. IsWellFoundedOn(StrictSubsetOrdering(S), FiniteSubsetsOf(S))
  BY FS_StrictSubsetOrderingWellFounded
<1>3. Bad \subseteq FiniteSubsetsOf(S)
  BY FS_FiniteSubsetsOfFinite
<1>4. PICK P \in Bad : \A Q \in Bad : <<Q, P>> \notin StrictSubsetOrdering(S)
  <2> HIDE DEF Bad
  <2>. QED
    BY <1>1, <1>2, <1>3, WFMin
<1>5. \A Q \in SUBSET P : Q # P => Listed(Q)
  <2> SUFFICES ASSUME NEW Q \in SUBSET P, Q # P, ~Listed(Q)
               PROVE  FALSE
    OBVIOUS
  <2>1. Q \in Bad /\ Q \in SUBSET S /\ P \in SUBSET S
    OBVIOUS
  <2>2. <<Q, P>> \in StrictSubsetOrdering(S)
    BY <2>1 DEF StrictSubsetOrdering
  <2>. QED
    BY <1>4, <2>1, <2>2
<1>6. P \in SUBSET S /\ IsFiniteSet(P) /\ ~Listed(P)
  BY FS_Subset
<1> HIDE DEF Bad
<1>7. CASE P = {}
  <2>1. Cardinality(P) = 0
    BY <1>7, FS_EmptySet
  <2>2. <<>> \in SetToSeqs(P) /\ Descends(<<>>)
    BY <1>7, <2>1 DEF SetToSeqs, Descends
  <2>. QED
    BY <1>6, <2>2
<1>8. CASE P # {}
  <2>1. PICK g \in P : \A h \in P : ~TextLess(stamp[g], stamp[h])
    BY <1>6, <1>8, GreatestText
  <2> DEFINE Q == P \ {g}
             n == Cardinality(Q)
  <2>2. Q \in SUBSET P /\ Q # P /\ g \notin Q /\ P = Q \cup {g}
    BY <2>1
  <2>3. n \in Nat /\ Cardinality(P) = n + 1
    <3>1. IsFiniteSet(Q)
      BY <1>6, FS_RemoveElement
    <3>2. n \in Nat
      BY <3>1, FS_CardinalityType
    <3>3. Cardinality(Q \cup {g}) = n + 1
      BY <2>2, <3>1, FS_AddElement
    <3>. QED
      BY <2>2, <3>2, <3>3
  <2>4. PICK l \in SetToSeqs(Q) : Descends(l)
    BY <1>5, <2>2
  <2> HIDE DEF Q, n
  <2>5. /\ l \in [1..n -> Q]
        /\ \A i, j \in 1..n : i # j => l[i] # l[j]
        /\ \A i, j \in 1..n : i < j => ~TextLess(stamp[l[i]], stamp[l[j]])
    BY <2>4 DEF SetToSeqs, Descends, n
  <2> DEFINE m == [i \in 1..(n + 1) |-> IF i = 1 THEN g ELSE l[i - 1]]
  <2>6. \A i \in 1..(n + 1) : i = 1 \/ i - 1 \in 1..n
    BY <2>3
  <2>7. m \in [1..(n + 1) -> P]
    BY <2>1, <2>2, <2>5, <2>6
  <2>8. \A i, j \in 1..(n + 1) : i # j => m[i] # m[j]
    BY <2>2, <2>3, <2>5, <2>6
  <2>9. \A i, j \in 1..(n + 1) : i < j => ~TextLess(stamp[m[i]], stamp[m[j]])
    <3> SUFFICES ASSUME NEW i \in 1..(n + 1), NEW j \in 1..(n + 1), i < j
                 PROVE  ~TextLess(stamp[m[i]], stamp[m[j]])
      OBVIOUS
    <3>1. CASE i = 1
      BY <2>1, <2>7, <3>1
    <3>2. CASE i # 1
      <4>1. i - 1 \in 1..n /\ j - 1 \in 1..n /\ i - 1 < j - 1 /\ j # 1
        BY <2>3, <2>6, <3>2
      <4>. QED
        BY <2>5, <3>2, <4>1
    <3>. QED
      BY <3>1, <3>2
  <2> HIDE DEF m
  <2>10. m \in SetToSeqs(P)
    BY <2>3, <2>7, <2>8 DEF SetToSeqs
  <2>11. Descends(m)
    BY <2>7, <2>9 DEF Descends
  <2>. QED
    BY <1>6, <2>10, <2>11
<1>. QED
  BY <1>7, <1>8

(* A list has the newest file first, as long as the UTC offset of local    *)
(* time was the same (ListedNewestFirst), and there is such a list: for    *)
(* whatever files, times, offsets and restarts, in whatever order equal    *)
(* timestamps come.                                                        *)
THEOREM ListsInOrder ==
  Spec => [](ListedNewestFirst /\ \A d \in Dirs : Listings(d) # {})
<1>1. ASSUME IInv, NEW d \in Dirs
      PROVE  Listings(d) # {}
  <2>1. rows[d] \in SUBSET Files /\ IsFiniteSet(rows[d])
        /\ stamp \in [Files -> Seq(Int)]
    BY <1>1 DEF IInv, DataType, RowsInv
  <2>. QED
    BY <2>1, ListingExists DEF Listings
<1>2. ASSUME IInv, NEW d \in Dirs, NEW list \in Listings(d),
             NEW i \in DOMAIN list, NEW j \in DOMAIN list, i < j,
             sent[list[i]].zone = sent[list[j]].zone
      PROVE  sent[list[i]].time >= sent[list[j]].time
  <2> DEFINE f == list[i]
             g == list[j]
  <2>1. f \in rows[d] /\ g \in rows[d] /\ ~TextLess(stamp[f], stamp[g])
    BY <1>2 DEF Listings, SetToSeqs, Descends
  <2>2. f \in Files /\ g \in Files /\ sent[f] # Unset /\ sent[g] # Unset
    BY <1>2, <2>1 DEF IInv, DataType, FileInv
  <2>3. sent[f] \in Upload /\ sent[g] \in Upload
    BY <1>2, <2>2 DEF IInv, DataType
  <2>4. /\ sent[f].time \in Nat /\ sent[g].time \in Nat
        /\ sent[f].zone \in Zones /\ sent[g].zone = sent[f].zone
    BY <1>2, <2>3, BoundsAssumption DEF Upload
  <2>5. /\ stamp[f] = Text(sent[f].time, sent[f].zone)
        /\ stamp[g] = Text(sent[g].time, sent[f].zone)
    BY <1>2, <2>2, <2>4 DEF IInv, StampInv
  <2> HIDE DEF f, g
  <2>6. ~(sent[f].time < sent[g].time)
    BY <2>1, <2>4, <2>5, TextsOrderTimes
  <2>7. sent[f].time >= sent[g].time
    BY <2>4, <2>6
  <2>. QED
    BY <2>7 DEF f, g
<1>3. IInv => ListedNewestFirst /\ \A d \in Dirs : Listings(d) # {}
  BY <1>1, <1>2 DEF ListedNewestFirst
<1>. QED
  BY Invariance, <1>3, PTL

-----------------------------------------------------------------------------
(* No launch leaves its port to the .env file, which main does not read.   *)
NoPortOnlyInDotenv ==
  \A l \in Launches :
    \/ l.port # <<>>
    \/ l.env["PORT"] # Unset
    \/ Getenv(l.dotenv, "PORT") = <<>>

(* The last word of a port is the same with and without its colon.         *)
LEMMA PortStep ==
  ASSUME NoPortOnlyInDotenv, IInv, PortInv, Next
  PROVE  PortInv'
<1>0. ProcessInv
  BY DEF IInv
<1>1. CASE Main
  <2>1. launch \in Launches /\ environ = launch.env /\ launch' = launch
    BY <1>0, <1>1 DEF Main, ProcessInv
  <2>2. PortSetting(launch) # <<>> => port' = PortSetting(launch)
    <3>1. CASE launch.port # <<>>
      BY <1>1, <3>1 DEF Main, PortSetting
    <3>2. CASE launch.port = <<>> /\ launch.env["PORT"] # Unset
      BY <1>1, <2>1, <3>2
      DEF Main, PortSetting, Setting, Merged, Getenv, Variables
    <3>3. CASE launch.port = <<>> /\ launch.env["PORT"] = Unset
      BY <1>1, <2>1, <3>3
      DEF Main, PortSetting, Setting, Merged, Getenv, Variables,
          NoPortOnlyInDotenv
    <3>. QED
      BY <3>1, <3>2, <3>3
  <2>. QED
    BY <2>1, <2>2 DEF PortInv
<1>2. CASE Listen
  <2>1. port \in Words /\ port # <<>> /\ phase \in Chosen
    BY <1>0, <1>2 DEF Listen, ProcessInv, Chosen
  <2>2. Last(port') = Last(port)
    BY <1>2, <2>1 DEF Listen, Words, Last
  <2>3. launch' = launch
    BY <1>2 DEF Listen
  <2>. QED
    BY <2>1, <2>2, <2>3 DEF PortInv
<1>3. CASE UNCHANGED <<launch, port>> /\ (phase' \in Chosen => phase \in Chosen)
  BY <1>3 DEF PortInv
<1>4. CASE phase' \notin Chosen
  BY <1>4 DEF PortInv
<1>. QED
  BY <1>1, <1>2, <1>3, <1>4
  DEF Next, Launch, LoadDotenv, OpenStorage, Exit, UploadFile, DeleteFile,
      Tick, ChangeZone, process, Chosen

(* A server that serves does so on the port, with the store and behind the *)
(* registration token that its settings give (SettingsHonoured), unless    *)
(* its port is in the .env file alone.                                     *)
THEOREM Configured ==
  ASSUME NoPortOnlyInDotenv
  PROVE  Spec => []SettingsHonoured
<1>1. Init => PortInv
  BY DEF Init, PortInv, Chosen
<1>2. ASSUME IInv, PortInv, [Next]_vars
      PROVE  PortInv'
  <2>1. CASE Next
    BY <1>2, <2>1, NoPortOnlyInDotenv, PortStep
  <2>2. CASE UNCHANGED vars
    BY <1>2, <2>2 DEF vars, process, PortInv
  <2>. QED
    BY <1>2, <2>1, <2>2
<1>3. IInv /\ PortInv => SettingsHonoured
  <2>. SUFFICES ASSUME IInv, PortInv, phase = "serving"
                PROVE  SettingsHonoured
    BY DEF SettingsHonoured
  <2>1. Place(launch) = [dir |-> dir, store |-> store]
    BY DEF IInv, ProcessInv, Chosen, Place
  <2>2. PortSetting(launch) # <<>> => Last(port) = Last(PortSetting(launch))
    BY DEF PortInv, Chosen
  <2>3. \A t : Registers(t) <=> (token # <<>> => t = token)
    BY DEF Registers, Serves, Mux
  <2>4. token = Setting(launch, "REGISTRATION_TOKEN")
    BY DEF IInv, ProcessInv
  <2>. QED
    BY <2>1, <2>2, <2>3, <2>4 DEF SettingsHonoured
<1>. QED
  BY Invariance, <1>1, <1>2, <1>3, PTL DEF Spec
=============================================================================
