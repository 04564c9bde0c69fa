------------------------------ MODULE Cookies ------------------------------
(***************************************************************************)
(* client/cookie.js: the cookies a server stores with a client, gives back *)
(* on request, and hands on at a transfer.  A Map is a place in maps: the  *)
(* first is client.cookies, each transfer adds the one it emits.           *)
(***************************************************************************)
EXTENDS ClientBase

CONSTANT Keys

Values == {"small", "other", "invalid"}  \* invalid: no Buffer, or over 5120 bytes

VARIABLES
    maps,     \* the contents of each Map, "none" where a key is absent
    handoffs, \* transferRequested events: their Map and what it held then
    clears    \* the once-listener that clears client.cookies is installed

cookieVars == <<maps, handoffs, clears>>

CookiesInit ==
    /\ maps = <<[k \in Keys |-> "none"]>>
    /\ handoffs = <<>>
    /\ clears = TRUE

cookies == maps[1]

(* checkPayload *)
Valid(value) == value # "invalid"

OnCookieRequest ==
    /\ Parses("cookie_request")
    /\ IF Valid(cookies[Arg])
       THEN Write(<<Frame("cookie_response", cookies[Arg], state)>>) /\ UNCHANGED conn
       ELSE End /\ UNCHANGED toServer
    /\ UNCHANGED <<options, state, cookieVars>>

(* A request is of a key, a store of a key and a value. *)
OnStoreCookie ==
    /\ Parses("store_cookie")
    /\ IF Valid(Arg[2])
       THEN maps' = [maps EXCEPT ![1][Arg[1]] = Arg[2]] /\ UNCHANGED conn
       ELSE End /\ UNCHANGED maps
    /\ UNCHANGED <<options, state, toServer, handoffs, clears>>

AllValid == \A k \in Keys : Valid(cookies[k])

(* Fault: the event carries client.cookies itself. *)
OnTransferShared ==
    /\ Parses("transfer")
    /\ IF AllValid
       THEN /\ handoffs' = Append(handoffs, [map |-> 1, held |-> cookies])
            /\ UNCHANGED conn
       ELSE End /\ UNCHANGED handoffs
    /\ UNCHANGED <<options, state, toServer, maps, clears>>

OnTransfer ==
    /\ Parses("transfer")
    /\ IF AllValid
       THEN /\ maps' = Append(maps, cookies)
            /\ handoffs' = Append(handoffs, [map |-> Len(maps) + 1, held |-> cookies])
            /\ UNCHANGED conn
       ELSE End /\ UNCHANGED <<maps, handoffs>>
    /\ UNCHANGED <<options, state, toServer, clears>>

(* client.cookies belongs to the user, who may put in what does not pass. *)
UserSetsCookie(key, value) ==
    /\ maps' = [maps EXCEPT ![1][key] = value]
    /\ UNCHANGED <<baseVars, handoffs, clears>>

(* 'end': the socket is closed. *)
Ended ==
    /\ conn' = "ended"
    /\ maps' = IF clears THEN [maps EXCEPT ![1] = [k \in Keys |-> "none"]] ELSE maps
    /\ clears' = FALSE
    /\ UNCHANGED <<options, state, toServer, toClient, handoffs>>

CookiesNext ==
    \/ OnCookieRequest
    \/ OnStoreCookie
    \/ OnTransfer
=============================================================================
