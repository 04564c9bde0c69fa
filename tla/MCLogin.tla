------------------------------ MODULE MCLogin -------------------------------
(***************************************************************************)
(* Every combination of version and options: the server verifies the user  *)
(* or not, the version has a configuration state or not, the client has    *)
(* credentials or not and is of the server's version or not.               *)
(***************************************************************************)
EXTENDS Login

AllModes == [online: BOOLEAN, config: BOOLEAN, credentials: BOOLEAN,
             wrongVersion: BOOLEAN]

RightVersion == {m \in AllModes : ~m.wrongVersion}
=============================================================================
