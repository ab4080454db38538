------------------------------ MODULE Handlers ------------------------------
(***************************************************************************)
(* The request handlers of src/gameloop/handledata/routes.rs over the     *)
(* player table (src/sql/queries.rs) and the directory of game servers    *)
(* (storage.servers, storage.server_names): Register and Login from       *)
(* clients, UpdateInfo and Verification from game servers.  Handlers run  *)
(* to completion one at a time (one driver task).                          *)
(*                                                                         *)
(* A user stands for its username and email; the checks of version,       *)
(* characters, lengths, email regex and sprite are one input, valid.  A   *)
(* reconnect code is the number of its draw (32 random characters, never  *)
(* drawn twice).  A token is its claim [user, server]; its signature is   *)
(* the business of RotatableKey.  current_server is written by the game   *)
(* servers, outside this repository.                                       *)
(***************************************************************************)
EXTENDS Naturals, Sequences, FiniteSets, Functions, TLC

CONSTANTS
  Users,      \* accounts, by email
  Names,      \* game-server names
  GsTokens,   \* tokens of connected game servers
  MaxCodes,   \* bound: reconnect codes drawn
  NoServer    \* a NULL current_server

NULL == 0   \* a NULL code column, or a client that holds no code

VARIABLES
  rows,        \* player table: user -> [exists, current, code]
  nextCode,    \* codes drawn so far
  held,        \* user -> the code the last Login reply gave its client
  minted,      \* claims of the tokens sent to clients
  servers,     \* storage.servers: token -> name
  serverNames, \* storage.server_names: name -> token
  announced,   \* token -> the name its game server last sent in UpdateInfo
  kills,       \* [token, user] pairs a KillClient was queued for
  lastLogin,   \* the last Login: its premises and outcome
  lastVerify,  \* the last Verification: its premises and verdict
  lastList     \* entries in each frame of the last ServerList reply

vars == <<rows, nextCode, held, minted, servers, serverNames, announced, kills,
          lastLogin, lastVerify, lastList>>

Claims == [user : Users, server : Names]

NewRowCodeAsServer(r, code) == [r EXCEPT !.exists = TRUE, !.current = code]

(***************************************************************************)
(* The code.                                                               *)
(***************************************************************************)
\* new_player's INSERT: the row exists, with current_server and
\* reconnect_code NULL.  player.code holds the drawn code, but no column of
\* the INSERT takes it.
NewRow(r, code) == [r EXCEPT !.exists = TRUE]

\* handle_login's check of a player already on a server: a stored code
\* equal to the one presented, and the server's name in server_names
\* (game_servers then has its token: entries are never removed).
ReloginCheck(r, c) ==
  /\ r.code /= NULL
  /\ r.code = c
  /\ r.current \in DOMAIN serverNames

\* What handle_login answers, in the order of its checks.
LoginOutcome(r, pwOk, c) ==
  CASE ~r.exists                                       -> "AlertUnified"
    [] ~pwOk                                           -> "Dropped"
    [] r.current /= NoServer /\ ~ReloginCheck(r, c)    -> "AlertRelogin"
    [] OTHER                                           -> "Login"

\* update_reconnect_code runs once every check has passed, and before
\* send_login: the code is stored unless the encode or the UPDATE failed.
RowAfterLogin(r, checked, res, c) ==
  IF checked = "Login" /\ res /= "UpdateFails" THEN [r EXCEPT !.code = c] ELSE r

\* send_login: the client gets a token for claim [u, n] and the code.
SendLogin(u, n, code) ==
  /\ held' = [held EXCEPT ![u] = code]
  /\ minted' = minted \cup {[user |-> u, server |-> n]}

\* send_kill_client: a KillClient frame for u queued to game server g.
SendKillClient(g, u) == kills' = kills \cup {[token |-> g, user |-> u]}

\* send_verification: the answer to a Verification.
SendVerification(named, ok) == lastVerify' = [named |-> named, ok |-> ok]

Init ==
  /\ rows = [u \in Users |-> [exists |-> FALSE, current |-> NoServer, code |-> NULL]]
  /\ nextCode = 0
  /\ held = [u \in Users |-> NULL]
  /\ minted = {}
  /\ servers = <<>>
  /\ serverNames = <<>>
  /\ announced = <<>>
  /\ kills = {}
  /\ lastLogin = [user |-> CHOOSE u \in Users : TRUE, credentials |-> FALSE,
                  onServer |-> FALSE, codeMatches |-> FALSE, online |-> FALSE,
                  checked |-> "AlertUnified", outcome |-> "AlertUnified"]
  /\ lastVerify = [named |-> FALSE, ok |-> FALSE]
  /\ lastList = <<>>

(***************************************************************************)
(* handle_register.  A failed check, or a user check_existance finds, is  *)
(* an alert.  Otherwise new_player runs: its INSERT may fail (an alert,   *)
(* nothing written), or succeed and a later insert of the item rows fail  *)
(* (an alert, the row stays); on success the code drawn at line 101 goes  *)
(* to the client with a token.  The INSERT has no reconnect_code column.  *)
(***************************************************************************)
NewPlayerResults == {"Ok", "InsertFails", "ItemsFail"}

Register(u, n, valid) ==
  /\ nextCode < MaxCodes
  /\ \/ /\ ~valid \/ rows[u].exists
        /\ UNCHANGED <<rows, nextCode, held, minted>>
     \/ /\ valid /\ ~rows[u].exists
        /\ \E res \in NewPlayerResults :
             /\ rows' = IF res = "InsertFails" THEN rows
                        ELSE [rows EXCEPT ![u] = NewRow(@, nextCode + 1)]
             /\ IF res = "Ok"
                THEN /\ nextCode' = nextCode + 1
                     /\ SendLogin(u, n, nextCode + 1)
                ELSE UNCHANGED <<nextCode, held, minted>>
  /\ UNCHANGED <<servers, serverNames, announced, kills, lastLogin, lastVerify,
                 lastList>>

(***************************************************************************)
(* handle_login with a right or wrong password, code c presented and      *)
(* server n asked for.  An unknown email is the unified alert; a wrong    *)
(* password makes find_player return Err, and game_loop's frame           *)
(* dispatcher closes the connection.  A player on a server must pass      *)
(* ReloginCheck, which queues a KillClient to that server; then the fresh *)
(* code is stored and sent with a token.  Past the checks three calls may *)
(* fail, each Err dropping the connection after the KillClient: the       *)
(* token's encode or update_reconnect_code ("UpdateFails", row unchanged), *)
(* or send_login after the UPDATE ("SendFails": new_packet, write or      *)
(* finish of the frame, or Client::send's reregister), which leaves the   *)
(* new code stored and the client without it.                             *)
(***************************************************************************)
LoginResults == {"Ok", "UpdateFails", "SendFails"}

Login(u, pwOk, c, n, res) ==
  LET r       == rows[u]
      checked == LoginOutcome(r, pwOk, c)
      outcome == IF checked = "Login" /\ res /= "Ok" THEN "Dropped" ELSE checked
  IN
  /\ nextCode < MaxCodes
  /\ lastLogin' = [user |-> u, credentials |-> r.exists /\ pwOk,
                   onServer |-> r.current /= NoServer,
                   codeMatches |-> c = r.code /\ c /= NULL,
                   online |-> r.current \in Range(announced),
                   checked |-> checked, outcome |-> outcome]
  /\ rows' = [rows EXCEPT ![u] = RowAfterLogin(r, checked, res, nextCode + 1)]
  /\ IF checked = "Login" /\ r.current /= NoServer
     THEN SendKillClient(serverNames[r.current], u)
     ELSE UNCHANGED kills
  /\ nextCode' = IF checked = "Login" /\ res /= "UpdateFails"
                 THEN nextCode + 1 ELSE nextCode
  /\ IF outcome = "Login"
     THEN SendLogin(u, n, nextCode + 1)
     ELSE UNCHANGED <<held, minted>>
  /\ UNCHANGED <<servers, serverNames, announced, lastVerify, lastList>>

(***************************************************************************)
(* Game servers.                                                           *)
(***************************************************************************)
\* handle_update_server_info: only an entry already in storage.servers is
\* overwritten; server_names is left alone.
UpdateInfo(g, n) ==
  /\ announced' = (g :> n) @@ announced
  /\ servers' = IF g \in DOMAIN servers THEN [servers EXCEPT ![g] = n] ELSE servers
  /\ UNCHANGED <<rows, nextCode, held, minted, serverNames, kills, lastLogin,
                 lastVerify, lastList>>

\* handle_verification of a token the key store accepts: verified iff the
\* claim's server is the name storage.servers has for the caller.
Verification(g, cl) ==
  /\ SendVerification(g \in DOMAIN announced /\ announced[g] = cl.server,
                      g \in DOMAIN servers /\ servers[g] = cl.server)
  /\ UNCHANGED <<rows, nextCode, held, minted, servers, serverNames, announced,
                 kills, lastLogin, lastList>>

\* handle_update_server_count: players_on and max_players of an entry
\* already in storage.servers are overwritten.  The model keeps no counts
\* (no property reads them), so the step changes nothing it records; the
\* entry is never created here.
UpdateCount(g) ==
  /\ servers' = IF g \in DOMAIN servers THEN [servers EXCEPT ![g] = @] ELSE servers
  /\ UNCHANGED <<rows, nextCode, held, minted, serverNames, announced, kills,
                 lastLogin, lastVerify, lastList>>

(***************************************************************************)
(* handle_server_list_request, i.e. send_server_list: for page i in       *)
(* 0 .. len / 5 a frame takes entries 5i .. 5i+4 while get_index finds    *)
(* them; at the first missing entry the frame is finished with its count  *)
(* and sent, and the function returns.  A directory of n entries gets     *)
(* n \div 5 full frames and one last frame of n % 5 entries, empty when   *)
(* n is a multiple of 5.                                                   *)
(***************************************************************************)
PerPacket == 5

ListFrames(n) ==
  [i \in 1 .. (n \div PerPacket) + 1 |->
     IF i <= n \div PerPacket THEN PerPacket ELSE n % PerPacket]

ServerList ==
  /\ lastList' = ListFrames(Cardinality(DOMAIN servers))
  /\ UNCHANGED <<rows, nextCode, held, minted, servers, serverNames, announced,
                 kills, lastLogin, lastVerify>>

\* A game server records in the player table that u plays on it, or left.
SetCurrent(u, n) ==
  /\ rows[u].exists
  /\ rows' = [rows EXCEPT ![u].current = n]
  /\ UNCHANGED <<nextCode, held, minted, servers, serverNames, announced, kills,
                 lastLogin, lastVerify, lastList>>

Next ==
  \/ \E u \in Users, n \in Names, valid \in BOOLEAN : Register(u, n, valid)
  \/ \E u \in Users, pwOk \in BOOLEAN, c \in 0 .. nextCode, n \in Names,
        res \in LoginResults : Login(u, pwOk, c, n, res)
  \/ \E g \in GsTokens, n \in Names : UpdateInfo(g, n)
  \/ \E g \in GsTokens, cl \in minted : Verification(g, cl)
  \/ \E g \in GsTokens : UpdateCount(g)
  \/ ServerList
  \/ \E u \in Users, n \in Names \cup {NoServer} : SetCurrent(u, n)

Spec == Init /\ [][Next]_vars

(***************************************************************************)
(* Properties.                                                             *)
(***************************************************************************)
Outcomes == {"Login", "AlertUnified", "AlertRelogin", "Dropped"}
Codes == 0 .. MaxCodes

TypeOK ==
  /\ rows \in [Users -> [exists : BOOLEAN, current : Names \cup {NoServer},
                         code : Codes]]
  /\ nextCode \in Codes
  /\ held \in [Users -> Codes]
  /\ minted \subseteq Claims
  /\ DOMAIN servers \subseteq GsTokens /\ Range(servers) \subseteq Names
  /\ DOMAIN serverNames \subseteq Names /\ Range(serverNames) \subseteq GsTokens
  /\ DOMAIN announced \subseteq GsTokens /\ Range(announced) \subseteq Names
  /\ kills \subseteq [token : GsTokens, user : Users]
  /\ lastLogin \in [user : Users, credentials : BOOLEAN, onServer : BOOLEAN,
                    codeMatches : BOOLEAN, online : BOOLEAN, checked : Outcomes,
                    outcome : Outcomes]
  /\ lastVerify \in [named : BOOLEAN, ok : BOOLEAN]
  /\ lastList \in Seq(0 .. PerPacket)

StoredCodeIsHeld ==
  \A u \in Users : rows[u].exists /\ held[u] /= NULL => rows[u].code = held[u]

\* Spec 4.9 Login and scenario 3: a player recorded on a game server that
\* is connected and has announced its name logs in again, with the right
\* password and the reconnect code stored on its row, and that session is
\* killed.
ReloginPossible ==
  lastLogin.credentials /\ lastLogin.onServer /\ lastLogin.codeMatches
    /\ lastLogin.online
  => lastLogin.outcome = "Login"

=============================================================================
