--------------------------- MODULE MCServerSetup ---------------------------
(***************************************************************************)
(* Launches of the server for TLC.                                         *)
(***************************************************************************)
EXTENDS ServerSetup, TLC

(* An environment or a .env file that sets what f sets. *)
Sets(f) == f @@ [v \in Variables |-> Unset]
Nothing == Sets(<<>>)

S3 == "STORAGE_TYPE" :> <<"s3">> @@ "AWS_BUCKET" :> <<"b1">>
Port(p) == "PORT" :> p
DataDir(d) == "DATA_DIR" :> d
Token(t) == "REGISTRATION_TOKEN" :> t

Start(p, d, e, f) == [port |-> p, arg |-> d, env |-> e, dotenv |-> f]

MCWord == {":", "8080", "8081", "8082", "9090", "d1", "d2", "t1", "t2",
           "s3", "local", "b1"}

(* The second offset is less than zero, which shows in the text. *)
MCZones == {0, -1}

(* A fraction that is lost, one and two digits of it, and 5 against 55.    *)
MCInstants == {0, 25, 50, 55, 100}

(* Every source of every setting, present, absent, empty and overridden,   *)
(* but for a port that only .env has; two launches have "" for argument.   *)
MCLaunches == {
  Start(<<>>, Unset, Nothing, Nothing),
  Start(<<":", "9090">>, Unset, Sets(Port(<<"8080">>) @@ Token(<<"t1">>)),
        Sets(Port(<<"8081">>) @@ Token(<<"t2">>))),
  Start(<<>>, Unset, Sets(Port(<<"8080">>)), Sets(S3 @@ Token(<<"t1">>))),
  Start(<<>>, <<"d1">>,
        Sets("STORAGE_TYPE" :> <<"local">> @@ Token(<<>>)),
        Sets(S3 @@ Token(<<"t1">>) @@ DataDir(<<"d2">>))),
  Start(<<>>, <<>>, Nothing, Sets(DataDir(<<"d1">>))),
  Start(<<>>, <<>>, Sets(S3), Nothing),
  Start(<<>>, Unset, Sets(S3), Nothing),
  Start(<<>>, Unset, Sets("STORAGE_TYPE" :> <<"s3">>), Nothing)}

(* The launch that .env.example suggests. *)
ExampleLaunches == {
  Start(<<>>, Unset, Nothing,
        Sets(Port(<<":", "8080">>) @@ "STORAGE_TYPE" :> <<"local">>))}
=============================================================================
