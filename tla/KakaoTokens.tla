------------------------------ MODULE KakaoTokens ------------------------------
(***************************************************************************)
(* The KakaoTalk notifier of src/agents/bdp_common/kakao/notifier.py and   *)
(* its users: the HDSP alert router, the drift handler and the scripts.    *)
(* Every process reads conf/kakao_tokens.json once, keeps the pair of      *)
(* tokens in memory, and on a 401 renews the pair and writes it over the   *)
(* file that all of them share, without a lock and without reading it      *)
(* again.                                                                  *)
(*                                                                         *)
(* Access tokens are numbered in the order Kakao issues them and expire in *)
(* that order; refresh tokens are numbered by the rotations, and a         *)
(* rotation revokes the token before it.                                   *)
(***************************************************************************)
EXTENDS Naturals

CONSTANTS
  Processes,  \* the processes that share the token file
  Tools,      \* those of them that are the setup tool
  Absent,     \* no file, and no tokens in memory
  Empty,      \* the file between open(..., "w") and the write
  Garbage,    \* a short pair written over a longer one: not JSON
  MaxTokens   \* bound: access tokens that Kakao issues

ASSUME TokensAssumption ==
  /\ Tools \subseteq Processes
  /\ MaxTokens \in Nat

VARIABLES
  pc,         \* where each process is in a send
  tokens,     \* KakaoNotifier.tokens of each process
  file,       \* conf/kakao_tokens.json
  issued,     \* the newest access token
  expired,    \* the newest access token that has expired
  rotation,   \* the newest refresh token, the only one Kakao honours
  delivered,  \* how often the message of a process's last send arrived
  result,     \* what its last send returned
  disturbed   \* a renewal was lost, not saved, or overlapped another one

vars == <<pc, tokens, file, issued, expired, rotation,
          delivered, result, disturbed>>
server == <<issued, expired, rotation>>

Pair == [access : Nat, refresh : Nat]

Init ==
  /\ pc = [p \in Processes |-> "new"]
  /\ tokens = [p \in Processes |-> Absent]
  /\ \/ file = Absent /\ issued = 0 /\ rotation = 0
     \/ file = [access |-> 1, refresh |-> 1] /\ issued = 1 /\ rotation = 1
  /\ expired = 0
  /\ delivered = [p \in Processes |-> 0]
  /\ result = [p \in Processes |-> "none"]
  /\ disturbed = FALSE

-----------------------------------------------------------------------------
Saving(p) == pc[p] \in {"opening", "writing"}

\* The send of p ends with a result.
Return(p, r) ==
  /\ pc' = [pc EXCEPT ![p] = "idle"]
  /\ result' = [result EXCEPT ![p] = r]

Goto(p, l) ==
  /\ pc' = [pc EXCEPT ![p] = l]
  /\ UNCHANGED result

\* load_tokens, once per process: at construction or on the first send.  A
\* missing or unreadable file leaves the process without tokens for good.
LoadTokens(p) ==
  /\ p \notin Tools
  /\ pc[p] = "new"
  /\ Goto(p, "idle")
  /\ tokens' = [tokens EXCEPT ![p] = IF file \in {Empty, Garbage}
                                     THEN Absent ELSE file]
  /\ UNCHANGED <<file, server, delivered, disturbed>>

Send(p) ==
  /\ pc[p] = "idle"
  /\ delivered' = [delivered EXCEPT ![p] = 0]
  /\ IF tokens[p] = Absent
     THEN Return(p, "False")
     ELSE /\ pc' = [pc EXCEPT ![p] = "posting"]
          /\ result' = [result EXCEPT ![p] = "none"]
  /\ UNCHANGED <<tokens, file, server, disturbed>>

\* Mutant: a timeout is taken for an expired token.
RetriedOnTimeout(p) ==
  /\ pc[p] \in {"posting", "reposting"}
  /\ tokens[p].access > expired
  /\ delivered' = [delivered EXCEPT ![p] = @ + 1]
  /\ Return(p, "True") \/ (pc[p] = "posting" /\ Goto(p, "refreshing"))
  /\ UNCHANGED <<tokens, file, server, disturbed>>

\* A POST that Kakao accepts; its answer may be lost.
MemoAccepted(p) ==
  /\ pc[p] \in {"posting", "reposting"}
  /\ tokens[p].access > expired
  /\ delivered' = [delivered EXCEPT ![p] = @ + 1]
  /\ \E r \in {"True", "False"} : Return(p, r)
  /\ UNCHANGED <<tokens, file, server, disturbed>>

\* A POST that fails before it is accepted: no connection, a 5xx, a result
\* code other than 0.
MemoFails(p) ==
  /\ pc[p] \in {"posting", "reposting"}
  /\ Return(p, "False")
  /\ UNCHANGED <<tokens, file, server, delivered, disturbed>>

\* 401: the first POST of a send renews the tokens, the second one gives up.
MemoUnauthorized(p) ==
  /\ pc[p] \in {"posting", "reposting"}
  /\ tokens[p].access <= expired
  /\ IF pc[p] = "posting" THEN Goto(p, "refreshing") ELSE Return(p, "False")
  /\ UNCHANGED <<tokens, file, server, delivered, disturbed>>

-----------------------------------------------------------------------------
\* Kakao's side of a renewal: a new access token and, when the refresh token
\* is near its end, a new refresh token.
Issue(rotated) ==
  /\ issued < MaxTokens
  /\ issued' = issued + 1
  /\ rotation' = IF rotated THEN rotation + 1 ELSE rotation
  /\ UNCHANGED expired

\* Mutant: only the access token of the answer is kept.
RotationIgnored(p, rotated) ==
  [access |-> issued + 1, refresh |-> tokens[p].refresh]

\* What refresh_access_token keeps of the answer.
Renewed(p, rotated) ==
  [access |-> issued + 1,
   refresh |-> IF rotated THEN rotation + 1 ELSE tokens[p].refresh]

\* A renewal while another process has one to save.
Overlaps(p) == \E q \in Processes \ {p} : Saving(q)

RefreshTokens(p) ==
  /\ pc[p] = "refreshing"
  /\ tokens[p].refresh = rotation
  /\ \E rotated \in BOOLEAN :
       /\ Issue(rotated)
       /\ tokens' = [tokens EXCEPT ![p] = Renewed(p, rotated)]
  /\ disturbed' = (disturbed \/ Overlaps(p))
  /\ Goto(p, "opening")
  /\ UNCHANGED <<file, delivered>>

\* Kakao renews and the answer is lost: the process keeps the old pair.
RefreshAnswerLost(p) ==
  /\ pc[p] = "refreshing"
  /\ tokens[p].refresh = rotation
  /\ \E rotated \in BOOLEAN : Issue(rotated)
  /\ disturbed' = TRUE
  /\ Return(p, "False")
  /\ UNCHANGED <<tokens, file, delivered>>

\* A revoked refresh token, or a request that never gets there.
RefreshRefused(p) ==
  /\ pc[p] = "refreshing"
  /\ Return(p, "False")
  /\ UNCHANGED <<tokens, file, server, delivered, disturbed>>

\* save_tokens: open(..., "w") empties the file...
OpenFile(p) ==
  /\ pc[p] = "opening"
  /\ file' = Empty
  /\ Goto(p, "writing")
  /\ UNCHANGED <<tokens, server, delivered, disturbed>>

\* ...and the close writes the pair, from the start of what is there by now.
Overwritten(p) ==
  IF file = Empty THEN {tokens[p]} ELSE {tokens[p], Garbage}

WriteFile(p) ==
  /\ pc[p] = "writing"
  /\ file' \in Overwritten(p)
  /\ Goto(p, "reposting")
  /\ UNCHANGED <<tokens, server, delivered, disturbed>>

\* An OSError in save_tokens is caught by refresh_access_token: the send
\* fails, the process goes on with the new pair, the file does not have it.
SaveFails(p) ==
  /\ Saving(p)
  /\ disturbed' = TRUE
  /\ Return(p, "False")
  /\ UNCHANGED <<tokens, file, server, delivered>>

\* setup_kakao_tokens, the tool an operator runs: get_tokens_from_code gets a
\* first pair for a fresh login and saves it, and the test message is sent
\* (with a token that is seconds old: its 401 is not followed up).
SetUp(p) ==
  /\ p \in Tools
  /\ pc[p] = "new"
  /\ Issue(TRUE)
  /\ tokens' = [tokens EXCEPT ![p] = [access |-> issued + 1,
                                      refresh |-> rotation + 1]]
  /\ disturbed' = (disturbed \/ Overlaps(p))
  /\ delivered' = [delivered EXCEPT ![p] = 0]
  /\ Goto(p, "opening")
  /\ UNCHANGED file

-----------------------------------------------------------------------------
\* The access tokens expire, oldest first (12 hours each).
Expire ==
  /\ expired < issued
  /\ expired' = expired + 1
  /\ UNCHANGED <<pc, tokens, file, issued, rotation,
                 delivered, result, disturbed>>

\* A process ends, or dies with a renewal that it has not saved.
Restart(p) ==
  /\ pc' = [pc EXCEPT ![p] = "new"]
  /\ tokens' = [tokens EXCEPT ![p] = Absent]
  /\ result' = [result EXCEPT ![p] = "none"]
  /\ delivered' = [delivered EXCEPT ![p] = 0]
  /\ disturbed' = (disturbed \/ Saving(p))
  /\ UNCHANGED <<file, server>>

Next ==
  \/ \E p \in Processes :
       \/ LoadTokens(p) \/ SetUp(p) \/ Send(p) \/ Restart(p)
       \/ MemoAccepted(p) \/ MemoFails(p) \/ MemoUnauthorized(p)
       \/ RefreshTokens(p) \/ RefreshAnswerLost(p) \/ RefreshRefused(p)
       \/ OpenFile(p) \/ WriteFile(p) \/ SaveFails(p)
  \/ Expire

Spec == Init /\ [][Next]_vars

-----------------------------------------------------------------------------
Labels == {"new", "idle", "posting", "refreshing", "opening", "writing",
           "reposting"}

TypeOK ==
  /\ pc \in [Processes -> Labels]
  /\ tokens \in [Processes -> Pair \cup {Absent}]
  /\ file \in Pair \cup {Absent, Empty, Garbage}
  /\ issued \in Nat /\ expired \in Nat /\ rotation \in Nat
  /\ delivered \in [Processes -> Nat]
  /\ result \in [Processes -> {"none", "True", "False"}]
  /\ disturbed \in BOOLEAN

\* One send delivers its message at most once, whatever is expired, lost or
\* renewed on the way, and never returns True for a message that did not
\* arrive: the retry of _send_memo follows a 401 only (notifier.py:441-464).
SendsOnce ==
  \A p \in Processes :
    /\ delivered[p] <= 1
    /\ result[p] = "True" => delivered[p] = 1

\* The one refresh token that Kakao honours is in the file, where the next
\* process finds it, or on its way there, through every renewal, rotation,
\* refusal, setup and restart of any number of processes, as long as no
\* renewal is disturbed (notifier.py:141-226).
NewestIsSaved ==
  rotation > 0 /\ ~disturbed =>
    \/ \E p \in Processes : Saving(p) /\ tokens[p].refresh = rotation
    \/ file \in Pair /\ file.refresh = rotation

=============================================================================
