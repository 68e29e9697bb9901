# A TLA+ verification project for go-send

go-send is a store-and-forward service for encrypted files: a command line
client (`internal/client`) encrypts a file for a recipient and uploads it; a
server (`internal/server`) keeps the content in a blob store and the metadata
in an SQLite database until the recipient downloads it. This directory models
the parts of it in which the order of events matters, model-checks them with
TLC on small instances and proves the main properties with TLAPS for all
instances.

## 1. The system

### Components

| Component | State | Operations | Talks to |
|---|---|---|---|
| File service: `handler.go`, `handler_delete.go`, `storage.go`, `blob_store.go`, `s3_store.go` | table `files`; the blob store (a directory or an S3 bucket) | `UploadFile`, `DownloadFile` (with auto-delete), `DeleteFile` | called by clients through `AuthMiddleware`; calls the database with the request's context and the blob store without one |
| Authentication and users: `auth_handler.go`, `handler.go`, `storage.go` | tables `users`, `challenges`, `sessions`; the clock | `RegisterUser`, `HandleGetChallenge`, `HandleLogin`, `AuthMiddleware`, `DeleteUser` | called by clients; gives every file request its user |
| Listing: `Handler.ListFiles`, `query.sql.go` | none of its own | one `SELECT ... ORDER BY timestamp DESC` | fills the client's index cache |
| Client configuration: `config.go`, `root.go` | the JSON config file, one copy of it in every running process | `LoadConfig`, `SaveConfig` | every command loads it, most rewrite it |
| Client commands: `*_cmd.go`, `auth.go` | only what they put into the configuration, and downloaded files | `config init`, `set-user`, `set-server`, `add-user`, `remove-user`, `login`, `register`, `send-file`, `list-files`, `download-file`, `delete-file`, `list-users`, `ping` | HTTP to the server |
| Server set-up: `cmd/server/main.go`, `server.go`, `transport.go` | the settings of the running process; which directory and blob store hold the data | `main`, `NewServer` (`.env`, blob store, database, routes), `Server.Start` | builds storage, handler and mux |
| Database access: `internal/db` | the SQLite connection pool | one method for each statement; generated by sqlc | called by `Storage` |
| Encryption: `internal/crypto` | none | key pairs, `Encrypt`/`Decrypt`, `Sign`/`Verify` | called by client and server |

### What makes it hard

* **Interleaving.** `net/http` serves each request in a goroutine. `Storage`
  has neither a lock nor a transaction: every handler is a sequence of
  independent statements and blob calls. Processes of the client share a config
  file without a lock.
* **Two stores.** A file is a blob and a row; crashes and failed calls come
  between the two writes of an upload and between the two of a deletion. A
  failed S3 call may have had its effect.
* **Cancellation.** Queries run under the request's context, which is cancelled
  when the client goes. The deletion after an auto-delete download runs under it
  too, just when the client has what it wanted.
* **Delivery.** A response is written into buffers: the handler does not know
  whether it arrived.
* **Read, then write.** `GetChallenge` reads and deletes in two statements;
  `DeleteFile` checks the permission on metadata read before; `HandleLogin` looks
  the user up before it creates the session.
* **Time.** Sessions expire while they are being checked.
* **Long sequences of commands.** What one command leaves in the config file is
  what a later one, perhaps for another user, relies on. Keys that are drawn
  again, an address book that is never refreshed and a token that expires meet
  files that are already on their way.
* **Settings.** They come from flags, environment and `.env` at different moments of
  the start, and data outlive the launch that wrote them.

`PROJECT.json` lists every hazard at its line with the properties that cover it.

### What makes each component correct

* File service: an acknowledged upload stays available until somebody entitled
  deletes it; nobody downloads half a file; an acknowledged deletion is final
  and leaves no content behind; together these make it a *mailbox*.
* Authentication: a session belongs to the registered key; a nonce opens one
  session; a login is refused only for a reason; a token refused as expired is never
  accepted again;
  only its owner deletes an account; together these make *accounts*: whoever acts as
  a user does so in a session that is valid at this moment and was opened with his key.
* Client configuration: private keys that were reported saved stay, a registered key
  is one the user can sign with, and an index means a file of the list on the screen,
  listed for the current user. The code breaks each of these in some order of steps:
  the properties name these orders and exclude any other (section 3).
* Delivery: only the recipient reads a file; success is reported of stored files
  only; such a file gets to its recipient or stays, unless a party deletes it or
  the user gave it away (auto-delete, new keys).
* Server set-up: the settings given are those in force; a file survives a restart
  with the same settings; a deletion leaves nothing behind; a list is in order.

## 2. Modules

| Module | What it is |
|---|---|
| `Mailbox` | the abstract specification of the file service |
| `FileService` | the detailed file service; states and checks `ImplementsMailbox` |
| `MCFileService` | its instances for TLC |
| `FileServiceProofs` | type correctness, the inductive invariant, five safety theorems |
| `FileServiceRefinement` | the proof that `FileService` implements `Mailbox` |
| `Accounts` | the abstract specification of authentication |
| `AuthService` | registration, login, sessions, deletion of users; states and checks `ImplementsAccounts` |
| `MCAuthService` | its instances for TLC |
| `AuthServiceProofs` | type correctness and five safety theorems |
| `AuthServiceRefinement` | the proof that `AuthService` implements `Accounts` |
| `ClientConfig` | the config file and the commands that work on it |
| `MCClientConfig` | its instances for TLC |
| `ClientConfigProofs` | type correctness and three safety theorems |
| `ClientDelivery` | a file's way from `send-file` to `download-file`, on top of `Mailbox` |
| `ClientDeliveryProofs` | type correctness and four safety theorems |
| `ServerSetup` | settings, start and restarts of the server; the order of lists |
| `MCServerSetup` | its launches for TLC |
| `ServerSetupProofs` | type correctness, four safety theorems, the order of timestamps |

`ClientDelivery` has the actions of `Mailbox` for its file store (`Box == INSTANCE
Mailbox WITH Requests <- {None}, listed <- rows`), each under the guards of the
handler that causes it, and `FileServiceRefinement` proves that every step of
`FileService` is one of these actions. What is *stored* and what is *listed* are two
things in `Mailbox`, because between the two steps of a deletion a file is listed and
gone. `Mailbox` does not say who may take a file out; that `ClientDelivery` lets only a
sender, a recipient or an auto-delete do so is what `OnlyEntitledDelete` says of
`FileService`, where it is checked and proved. This connection is by the two models
having the same guards (`MayDelete`, `AutoDelete`); no theorem composes the two.
A login is one step there, which `AuthService` has in
full. `AuthService` tells which requests reach `FileService` (those with a user), and
`Accounts` what it means to have one; `FileService` allows any user and any id, so
what holds of it holds behind any authentication.

In every component module a block "Faulty variants" holds single actions with
one plausible bug each. No specification uses them; put in the place of the
action they vary, they make one property fail, which shows that it can.

### FileService

A member of `Requests` is one HTTP request. `pc[r]` says which call its handler
makes next; every action is one call with what the handler does up to the next
one:

| `pc` | Code | Actions |
|---|---|---|
| `idle` | the handler's checks of method and body, `uuid.New` | `UploadFile`, `DownloadFile`, `DeleteFile` |
| `save`, `saving` | `SaveFile`: `Blob.Save` | `BlobSaveBegin`, `BlobSaveEnd`, `BlobSaveFails` |
| `insert` | `SaveFile`: `Queries.CreateFile`, then 201 or 500 | `CreateFile`, `CreateFileFails` |
| `lookup` | `GetFileMetadata` and the permission check of `DeleteFile` | `LookupMisses`, `LookupForDownload`, `LookupForDelete` |
| `read` | `GetFileContent` | `GetFileContent`, `GetFileContentFails` |
| `encode` | `json.Encoder.Encode` | `EncodeResponse`, `EncodeFails` |
| `unblob` | `Storage.DeleteFile`: `Blob.Delete` | `DeleteBlob`, `DeleteBlobFails` |
| `unrow` | `Storage.DeleteFile`: `Queries.DeleteFile` | `DeleteRow`, `DeleteRowFails` |

`blob[f]` is `partial` between the creation of the file by `os.WriteFile` and its
end; S3 shows nothing before `PutObject` completes. `Disconnect` closes the
client's end: from then on a statement may fail (the context is cancelled), and
may also still run (nobody has noticed yet). `CrashRestart` kills all handlers
and keeps both stores, as `NewStorage` does. Metadata is a sender, a recipient
and the auto-delete flag; names and encrypted keys are left out. A download has
no permission check in the code and none here. The INSERT and the answer 201 it
leads to are one step, which makes "published" mean slightly more files than
those whose sender has been told.

### AuthService

The same style: `pc[r]` names the statement to come. A challenge request names
the nonce it draws and a login request the token (both are random in the code,
so distinct). A login names any user and any nonce: one the server has answered to
anybody, or one of `Guesses` (`None`, a nonce never drawn), for the handler compares
them only after it has spent the challenge. A signature is the pair of key and nonce. `Storage.GetChallenge` is
two actions, `GetChallenge` and `DeleteChallenge`, as it is two statements.
`Routes` chooses between the mux of `NewServer`, which serves the program and has
no DELETE /users, and `Handler.ServeHTTP`, which the tests use and which has it.
A session row carries the key that signed as a history field; `late` and
`disturbed` are history too. A response that only a cancelled client would see
is still recorded as the handler wrote it.

`Accounts` hides the statements: its `sessions` are the rows that have not expired
(`LiveSessions`), its `proved` the logins past `VerifySignature` (`Proved`), `served` the
requests let through to the handlers for files (`Served`) and `entitled` those about to
delete their user (`Entitled`). It has no challenges: how a login shows the key is up
to `AuthService`. A request is accepted in one step, for a session that is valid then,
while in the code the row was read before, perhaps by several requests, and another may
delete it; that this makes no difference is what `ImplementsAccounts` says.

### ClientConfig

A member of `Procs` is one invocation of the client. It loads the file
(`LoadConfig`), runs its command on its copy, asks the server (which may answer
anything the client can tell apart: success, failure, any key for a name), and
saves the copy with `os.WriteFile`: `SaveBegin` truncates the file, `WriteWhole`
writes it in one `write(2)`. If another process wrote after the truncation, the
shorter text over the longer one may leave garbage: `WriteTorn`. A save may fail
before or during the write (`SaveFails`), and the process may be killed anywhere
(`Kill`). `goal` is where the command goes on after its save: login within
`GetAuthHeader`, lookup within `send-file`, printing
within `list-files` (`PrintList`, after the save or the warning about it). A key that
`add-user` or a lookup brings in may be any, one drawn here included. A key pair is named after the
invocation that drew it; of tokens only the presence is kept, of listed files
only which `list-files` they come from, and `ServerURL` is left out. The histories
`cut` (who has left the file unreadable), `clobbered` and `missed` (who overlapped whom),
`entered` (keys put under a name by `add-user` or a lookup), `shown` and `warned` let the
properties name who has caused what.

### ClientDelivery

Every user has a config file of his own (`key`, `book`, `token`, `index`) and runs one
command at a time; `pc[u]` is where it is:

| `pc` | Code | Actions |
|---|---|---|
| `idle` | the command's checks; config commands | `ConfigInit`, `AddUser`, `RemoveUser`, `Register`, `LoginCommand`, `SendFile`, `ListFiles`, `DownloadByIndex`, `DownloadById`, `DeleteFile` |
| `lookup` | `send-file`: `GET /users?username=` | `LookupUser`, `UserUnknown` |
| `login` | `Login`, also from `GetAuthHeader` | `Login`, `LoginFails` |
| `request` | the server's handler | `HandleRegister`, `HandleUpload`, `HandleList`, `HandleDownload`, `HandleDelete`, `Refuse`, `DeleteRefused` |
| `confirm` | the row of a deletion whose content is gone | `HandleDeleteRow` |
| `answer` | the command's work on the response | `TakeRegistered`, `TakeUploaded`, `TakeList`, `TakeDownload`, `TakeDeleted` |

`<<u, n>>` is the `n`-th set of keys that `config init` has drawn for `u`; the identity
and the exchange key are drawn and replaced together, and registered together, so
they are one. Encryption is what it does: content opens with the private key
that belongs to the public key it was sealed with (`Opens`). The wrapped symmetric
key travels with the content. The auto-delete at the end of a download is two
steps of the server (`AutoDelete`, `AutoDeleteRow`), which happen at any time after
the content was read, or never. `Expire` is the end of a session's 24 hours.
`Interrupt` is a killed command, a lost request or response, a server that crashed
in the middle of a deletion, or a downloaded file that could not be written; a
config file that could not be saved is a `Fault` of `LookupUser` and `TakeList`.

`Senders`, `Recipients` and `Rekeying` bound who does what, to keep an instance small:
senders also use the address book, recipients list and download by number, the
others download by an id that they were told. A sender starts `send-file` only
while there is a UUID left. `add-user` and `remove-user` are for other users'
names, and `add-user` enters the key that user has at this moment; what one's own
name does is in `ClientConfig`. `ClientConfig` also has overlapping commands and
torn files and the moment a list is printed, which are left out here. `told`, `read` and the other history
variables record what users have seen; no guard reads them.

### ServerSetup

`phase` is what the server process does next: `main` reads the flags, the argument
and `PORT`; `load` is `godotenv.Load`; `open` opens the blob store and the database;
`routes` reads the registration token and completes the port; `serving`. `Exit` is a
`log.Fatalf` or a kill, at any phase. A setting is a sequence of words, because
`Start` adds a colon to a port without one. Without an argument the directory is
`./server_data`; with the argument `""` it is `DATA_DIR` or, without this, again
`server_data` (`LocalDir`), and an S3 launch, for which nothing stands in, exits. A request is one step. `rows[d]` is
the database in directory `d`, `blobs[s]` the content in store `s`, and both stay
when the process goes. `Setting`, `PortSetting` and `Place` say what README.md says of
a launch: flags first, then the environment, then `.env`. `sent[f]` remembers under
which settings `f` was uploaded.

go-sqlite3 stores a timestamp as text in local time with its UTC offset and with
the trailing zeros of the fraction removed, and `ORDER BY timestamp` compares texts.
`Text` builds such a text from a clock in hundredths of a second (fractions of
none, one and two digits, one of which may be a prefix of another) that jumps forward
within the set `Instants`, and from an offset that may change while the server runs
(daylight saving); everything down to the seconds has a fixed width and is one
number. Servers run one at a time and in one working directory.

## 3. Model checking

| Run | Instance | Shows |
|---|---|---|
| `files_s3` | 3 requests, 1 file, 2 users, S3, every call may fail | type invariant, four safety properties and `ImplementsMailbox`, also when failed S3 calls have taken effect |
| `files_live` | 3 requests, 1 file, 1 user, local store, no failing storage call | `NoHalfWrittenDownload`, `DeletionCompletes` |
| `autodelete_row` | 2 requests | violation: `DownloadedAutoDeleteIsGone` |
| `autodelete_delivery` | 2 requests | violation: `AutoDeletedWasDelivered` |
| `auth_order` | 4 requests, 1 user, 2 keys, a guessed nonce, clock to 2, routes of `NewServer` | `SessionHoldsRegisteredKey`, `SpentNonceIsRefused`, `RefusedOnlyIfDisturbed`, `ImplementsAccounts` |
| `auth_faults` | 4 requests, 2 users, clock to 2, failing statements, routes of `ServeHTTP` | type invariant, `ExpiredStaysExpired`, `OnlyOwnAccountDeleted`, `ImplementsAccounts` |
| `auth_nonce` | 3 requests | violation: `NonceUsedOnce` |
| `client_overlap` | 3 invocations at once, 2 names, one's own among those of the address book, failing saves, kills | type invariant, `KeysKept`, `RegistersHeldOrEnteredKey`, `IndexIsOfListShown` |
| `client_index` | 4 invocations one at a time, 2 users in one config | violation: `IndexIsForCurrentUser` |
| `delivery` | 2 users, 1 file, 2 sets of keys, 1 fault | type invariant, four safety properties, `StoreAndForward` |
| `server_setup` | 8 launches, 2 files, 2 UTC offsets, 5 instants | type invariant, `SettingsHonoured`, `FilesSurviveRestart`, `LeftoverOnlyAfterSwitch`, `ListedNewestFirst` |
| `server_dotenv` | the launch of `.env.example` | violation: `SettingsHonoured` |

**Why the bounds are enough.** The rows and blobs of different files never meet in
an action, so one file shows what can happen to any; three requests are the
upload and any two that race for its file (download with auto-delete, deletion,
retry). Two users tell a party to a file from another user. A login takes a
challenge and a login request; four requests leave two to interfere with them,
or two to use the session, and two users to tell owners apart. Time 2 with a
lifetime of 1 lets sessions be valid, at their limit and past it. `ImplementsAccounts`
is checked twice, as only `auth_order` has a second key to sign with and only
`auth_faults` has failing statements and a user's deletion. `auth_order` has
586,293 distinct states and `auth_faults` 763,758. In
`client_overlap` one invocation reports, another overlaps it and a third loads
what they leave: so one may draw keys, one replace the public key, one register; or
two list files and a third save over them; 1,747,838 states. In `delivery` two sets of keys give files sealed for the old and for
the new one, a stale address book and a registration with either; one fault is any
lost message, kill, failed save or expiry at any step; the second user is the
one who may not read; 274,215 states. One file leaves out lists of more than one
entry; that a number means a list other than the one shown is checked in
`client_overlap`, where lists are told apart whatever they hold. In `server_setup` the eight launches
have every source of a setting present, absent, empty and overridden (but for a
port that `.env` alone has, which is `server_dotenv`), both storage types on one
directory, another directory, given and from `DATA_DIR`, and two S3 launches that exit, without
a bucket and without a directory; they follow each other in any order. The instants
0, 25, 50, 55 and 100 hundredths have a fraction that is lost, one of one digit, one of
two, one that is a prefix of another (`.5` and `.55`, where a sign meets a digit) and the
next second; two files are compared in every list; 1,077,810 states. Every safety property of the
passing runs has a theorem and holds for any numbers.

**Deadlock.** The requests or invocations of an instance are finite and each is used
once, and in `delivery` keys, UUIDs and faults run out; when all have ended the system
stops, so `CHECK_DEADLOCK FALSE` is set. `ServerSetup` never stops and is checked. That
no handler waits for ever is visible in `FileService`, where every stage has an
action that always can run.

**Fairness.** `FairSpec` of `FileService` assumes weak fairness of each handler, `WF_vars(Handle(r))`:
the Go scheduler runs a goroutine that can run, and every call returns or fails.
Nothing is assumed of clients, crashes or arrivals. `DeletionCompletes` promises
nothing once the client has hung up or the server has crashed, because the code
does not: that is what `autodelete_row` shows.

`FairSpec` of `ClientDelivery` assumes weak fairness of the steps of a running command
and its handler (a process that can run is scheduled; a call returns or fails),
and of a recipient that he goes on using the client: if again and again he can
register, log in after his token has expired, list his files, or download a
listed number, he does (strong fairness, for another of his commands may be running
now). The code never logs in again by itself (`auth.go:93`), so without the second
the property is false. Nothing is assumed of senders, of deletions, of
`config init`, of the auto-delete steps or of faults. `StoreAndForward` says that a
file reported as sent is then read, deleted, or its recipient has drawn new keys.

### What the client properties name

The config file is written without a lock and not atomically, so what one would like
to say of it is not true. The properties say by which steps it fails, and that it
fails by no others.

* `KeysKept`. A save that fails, is killed or meets another one after
  `os.WriteFile` has truncated the file (config.go:66) leaves a file no later command
  loads, and with it **all private keys are lost**; an overlapping save (root.go:41)
  rewrites the file from a copy without the new ones. The histories `cut` and
  `clobbered` hold exactly those. The property excludes that anything else - above all
  a later command that meets the torn file, or one that began after the save - loses
  a key.
* `RegistersHeldOrEnteredKey`. register_cmd.go:41 takes the public key from the address
  book, "we can just use the ones in cfg.Users". After `add-user` on one's own name, or
  `remove-user` and a lookup, this key is not that of the private key in use: it is
  registered all the same, the server never changes it, and the user cannot log in.
  `client_overlap` has this case (`Own` is part of `Book`), and such keys are in
  `entered`. The property excludes that overlapping, failed and killed saves, or a
  second `config init`, tear a pair apart.
* `IndexIsOfListShown`. A number is looked up in the list in the file, the user sees the
  one on the screen. They differ after a save that failed with a warning, after an
  overlap, and if a later `list-files` has saved its list and not printed it, being
  slow or killed between list_cmd.go:63 and 67.
* `ReadableUnlessRekeyed` and `StoreAndForward` (of `ClientDelivery`) promise nothing
  of files sealed for keys that the recipient has replaced. These are sent before he
  replaced them, and also afterwards: address books are not refreshed, and the server
  never takes a second key for a name.

### What the violations show

* `autodelete_row`: the client of an auto-delete download closes its connection as
  soon as it has the body; the context of `Storage.DeleteFile` is cancelled
  between blob and row, the error is dropped, and the file stays listed without
  content. README.md promises deletion "immediately after download".
* `autodelete_delivery`: `Encode` returns nil for a response that never arrives,
  and the only copy is deleted.
* `auth_nonce`: two logins read the nonce before either deletes it, and both open
  a session; storage.go calls it "one-time use".
* `client_index`: `list-files` as one user, change of user, `download-file 1`.
* `server_dotenv`: README.md has `PORT` among the variables of the `.env` file and
  `.env.example` sets it to `:8080`; `main` reads it before `NewServer` loads that file, so
  the server listens on the default of the code, `:8082`, where README.md says
  `:8080`.

Disagreements seen while reading and not worth a run of their own:

* storage.go says that `AddUser` "adds or updates a user", and it only inserts.
* The schema declares foreign keys (storage.go:68); SQLite enforces none without
  `PRAGMA foreign_keys = ON`, and a deleted user's sessions and files stay.
* `register` sends the address book's entry of one's own name, see above.
* `remove-user --remote` is answered 405: the mux has no DELETE /users, though
  `Handler.ServeHTTP`, the client (user_cmd.go:255) and the integration script do.
* The systemd unit sets `STORAGE_DIR`, which nothing reads; docker-compose mounts
  `/data` while the data are in `./server_data`; `DATA_DIR` matters only if the server is
  started with an argument that is empty.

## 4. Proofs

Everything listed here is checked by `tlapm` to the last leaf. The assumptions are
the named ASSUMEs of the component modules: the options have one of their
values, bounds are natural numbers, `Files` is finite where lists are made of it, and
`None` (`Unset`) is none of the other values.

* `FileServiceProofs`. The safety invariants are not inductive: that a blob is
  whole when its row is inserted depends on where the upload is and on nobody
  else knowing its id. `IInv` adds this in four named parts: `ProgressInv` (what
  a handler has done and not done at each stage), `UploadInv` (an id belongs to
  one upload; before its row exists nothing has touched the file), `FileInv` (row,
  content and deletion of one file) and `RemoveInv` (what entitles a handler to
  go on, and what it has caused). One lemma for each action keeps `IInv`;
  `NeverHalfWritten`, `Availability`, `NoLeftovers`, `Entitlement` and
  `DeleteFinality` follow from it.
* `FileServiceRefinement`. `Refinement == Spec => ImplementsMailbox`, by the same
  invariant: inserting the row is the deposit, reading the blob is the fetch,
  deleting the blob is the removal, deleting the row takes the file off the lists
  and, for a DELETE, is the confirmation; each other step changes nothing a client
  sees. The crux is that a download past its
  lookup either finds the whole blob, and then the file is still stored, or
  fails.
* `AuthServiceProofs`. `SessionKey`: with the routes of `NewServer` no row of
  `users` ever changes once it is there; `KeyInv` adds that a login about to
  create a session has the registered key. The other theorems need `OverInv` (what is
  answered is over, and what is used was answered) and one part each. `Expiry` and
  `OwnAccount` are action properties. `RowInv`: all running requests with one token
  have read the same row, which is still there or deleted. `ExpiredInv`: once a request
  has found the row expired, at this stage or in its answer, the clock is past the time
  of the row and of every copy of it that a request still holds, and this stays so
  when the row is deleted, when its deletion fails and when the request has ended. `SpentNonce`, if
  statements do not fail unasked: by `NonceInv` the nonce is out of the table once a
  login that read it goes on, and never comes back. `Undisturbed`, under this
  assumption and with the routes of `NewServer`: `ClearInv` follows a nonce from its
  challenge to the comparison of keys as long as no other request touches it.
* `AuthServiceRefinement`. `Refinement == Spec => ImplementsAccounts`: `CreateUser` is
  `SignUp`, a good `VerifySignature` is `Prove`, `CreateSession` is `Open`, `Accept` is
  `Serve` or `Entitle`, `DropUser` is `Leave`, `Tick` is `Pass`, and all else changes nothing
  that is seen, but that crashed and failed logins are given up. The crux is `Accept`: the
  row it goes by was read before. `LiveInv` adds to `IInv` that such a row is gone only
  if it has expired, so a row found valid is still there, and is the one that was
  read; and that a session is not there before its login is over, so it is opened once.
* `ClientConfigProofs`. `KeyRegistered`: every copy of the configuration, and the file,
  pairs each private key with its public key or with one that was entered for the
  name, because copies are only ever replaced as a whole. `KeysNotLost`: `KeyInv` says
  of every config init whose save went through that the file, and every running copy
  that does not predate the save, has its keys, unless that copy is about to initialise
  the same name; `CutInv` says that a file that cannot be read has a writer at work or
  one that has left it so. `IndexMeansShown`: `ListInv` follows the list of a `list-files`
  from its copy through the save, the file and the copies loaded from it to the print.
* `ClientDeliveryProofs`. What a command does last rests on what it read first, so
  `IInv` says of each stage what is known there: `WorkInv` (a command, its stage and
  the server agree), `KeyInv` (every public key in the server, in an address book, in a
  running command or on a seal is one its owner has drawn, and the current one
  unless he has drawn again), `ReadInv` (who decrypted was the recipient),
  `ListInv` (lists and index name only files of their user), `SendReportsTruth`, and `LossInv` (where a file that is no longer
  stored has gone). There are two dozen actions and most leave most of it alone: the
  lemmas `Steady...` name the few that change the server, a config file, the history
  or a list, `Starting` and `Moving` sum up what commands begin with and how they move,
  and one lemma for each part of `IInv` then has to look only at those. `Confidential`,
  `Readable`, `TruthTold` and `Retention` follow.
* `ServerSetupProofs`. `ProcessInv` says what is known at each phase: after `load` the
  environment is that of the launch completed by `.env`, and everything chosen later is
  what `Setting` and `Place` say. `FileInv`: rows and content are only where their
  upload put them, and are there until a deletion. `Survival` and `Leftovers` follow.
  `Configured` is `SettingsHonoured` from the assumption `NoPortOnlyInDotenv`; the run
  `server_dotenv` shows that it is needed. `TextsOrderTimes`: of two timestamps with one
  offset, the later has the greater text, by the first character in which they
  differ (seconds; sign against point; a digit; sign against the second digit, when
  one fraction is a prefix of the other): `Shows` says what the first four characters of
  a text are, and `ShownInOrder` compares them. `ListsInOrder`: two
  texts are ordered by the first character in which they differ, so the order is
  transitive; `StampInv` says that the text of a file is that of its upload, which with
  `TextsOrderTimes` gives `ListedNewestFirst` for each sorted list. That there is a
  sorted list at all (the theorem would be empty without) is an induction over finite
  sets. `GreatestText` and `ListingExists` do it without an induction theorem, on a
  smallest set that fails: strict subsets of a finite set are well-founded
  (`FS_StrictSubsetOrderingWellFounded` and `WFMin` of the libraries).

Only model-checked: the liveness properties `DeletionCompletes` and `StoreAndForward`,
which rest on fairness and so on ENABLED, out of the prover's reach. The five
violations are TLC's counterexamples and need no proof.

## 5. Not modelled, and why

* The algorithms of `internal/crypto`, JSON, HTTP framing, logging: trusted or without
  state. Encryption, decryption and signatures are in the models by what they
  do. Content is whole, partial or absent.
* Names of files, and that a download overwrites a file of the same name: the code
  promises nothing about the working directory.
* Power failures and what SQLite and file systems do about them: crashes are of
  the process only.
* Validation of requests: rejected requests change nothing.
* `ping` and `list-users`: they change nothing and nothing depends on them.
* Plumbing generated by sqlc (`Prepare`, `Close`, `WithTx`): nothing calls it.
* Build, packaging, tests.

## 6. Plan

Done, in this order: `Mailbox` and `FileService` with their proofs; `Accounts` and
`AuthService` with their proofs; `ClientConfig` with its theorems; `ClientDelivery` on top of `Mailbox`, with
its theorems; `ServerSetup` with its theorems.

Left, in this order:

1. `Accounts` and `Mailbox` in one specification: a request for files acts for the user
   of a session that is valid when it is checked. The two share no state but the user
   a request carries, so little is expected of it.
2. `StoreAndForward` for two files at once; the safety properties of `delivery` are
   proved for any number of files.
3. Names of downloaded files, if the client ever promises not to overwrite.
