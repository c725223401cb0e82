--------------------------- MODULE KakaoTokensProofs ---------------------------
(***************************************************************************)
(* Proofs about the shared KakaoTalk tokens, for any number of processes   *)
(* and setup tools, any bound on the tokens, with and without faults.      *)
(***************************************************************************)
EXTENDS KakaoTokens, TLAPS

\* A process in the middle of a send.
Active == {"posting", "refreshing", "opening", "writing", "reposting"}

\* A send starts with tokens, has no result before it ends, and has not
\* delivered anything while it may still post.
SendInv ==
  \A p \in Processes :
    /\ pc[p] \in Active => tokens[p] \in Pair /\ delivered[p] = 0
    /\ pc[p] \in Active \cup {"new"} => result[p] = "none"
    /\ delivered[p] <= 1
    /\ result[p] = "True" => delivered[p] = 1

\* Until a renewal is disturbed, one process saves at a time, what it saves
\* is the newest, and without one the file is the newest already.
SaveInv ==
  ~disturbed =>
    /\ \A p, q \in Processes : Saving(p) /\ Saving(q) => p = q
    /\ \A p \in Processes : Saving(p) => tokens[p].refresh = rotation
    /\ \A p \in Processes : pc[p] = "writing" => file = Empty
    /\ rotation > 0 /\ (\A p \in Processes : ~Saving(p)) =>
         file \in Pair /\ file.refresh = rotation

IInv == TypeOK /\ SendInv /\ SaveInv

-----------------------------------------------------------------------------
\* The initial states: a fresh host, and one that was set up.
LEMMA InitInv == Init => IInv
  <1> SUFFICES ASSUME Init PROVE IInv
    OBVIOUS
  <1>1. file \in Pair \cup {Absent} /\ issued \in Nat /\ rotation \in Nat
    BY DEF Init, Pair
  <1>2. TypeOK
    BY <1>1 DEF Init, TypeOK, Labels
  <1>3. SendInv
    <2>1. \A p \in Processes : /\ pc[p] = "new" /\ result[p] = "none"
                              /\ delivered[p] = 0
      BY DEF Init
    <2> QED
      <3> SUFFICES ASSUME NEW p \in Processes
                   PROVE  /\ pc[p] \in Active =>
                               tokens[p] \in Pair /\ delivered[p] = 0
                          /\ pc[p] \in Active \cup {"new"} => result[p] = "none"
                          /\ delivered[p] <= 1
                          /\ result[p] = "True" => delivered[p] = 1
        BY DEF SendInv
      <3>1. pc[p] = "new" /\ result[p] = "none" /\ delivered[p] = 0
        BY <2>1
      <3> QED
        BY <3>1 DEF Active
  <1>4. ~disturbed /\ \A p \in Processes : ~Saving(p) /\ pc[p] # "writing"
    BY DEF Init, Saving
  <1>5. rotation > 0 => file \in Pair /\ file.refresh = rotation
    BY DEF Init, Pair
  <1>6. SaveInv
    BY <1>4, <1>5 DEF SaveInv
  <1> QED
    BY <1>2, <1>3, <1>6 DEF IInv

-----------------------------------------------------------------------------
\* Every step keeps the types.
LEMMA StepTypes == TypeOK /\ SendInv /\ [Next]_vars => TypeOK'
  <1> SUFFICES ASSUME TypeOK, SendInv, [Next]_vars PROVE TypeOK'
    OBVIOUS
  <1> USE DEF TypeOK, Labels, Return, Goto, server
  <1>1. ASSUME NEW p \in Processes, LoadTokens(p) PROVE TypeOK'
    <2>1. (IF file \in {Empty, Garbage} THEN Absent ELSE file)
            \in Pair \cup {Absent}
      OBVIOUS
    <2>2. tokens' \in [Processes -> Pair \cup {Absent}]
      BY <1>1, <2>1 DEF LoadTokens
    <2> QED
      BY <1>1, <2>2 DEF LoadTokens
  <1>2. ASSUME NEW p \in Processes, SetUp(p) PROVE TypeOK'
    <2>1. tokens' \in [Processes -> Pair \cup {Absent}]
      BY <1>2 DEF SetUp, Pair
    <2>2. issued' \in Nat /\ rotation' \in Nat /\ expired' \in Nat
      BY <1>2 DEF SetUp, Issue
    <2>3. pc' \in [Processes -> Labels] /\ delivered' \in [Processes -> Nat]
      BY <1>2 DEF SetUp
    <2>4. disturbed' \in BOOLEAN /\ UNCHANGED <<file, result>>
      BY <1>2 DEF SetUp, Overlaps
    <2> QED
      BY <2>1, <2>2, <2>3, <2>4
  <1>3. ASSUME NEW p \in Processes, Send(p) PROVE TypeOK'
    BY <1>3 DEF Send
  <1>4. ASSUME NEW p \in Processes, Restart(p) PROVE TypeOK'
    BY <1>4 DEF Restart, Saving
  <1>5. ASSUME NEW p \in Processes, MemoAccepted(p) PROVE TypeOK'
    BY <1>5 DEF MemoAccepted
  <1>6. ASSUME NEW p \in Processes, MemoFails(p) PROVE TypeOK'
    BY <1>6 DEF MemoFails
  <1>7. ASSUME NEW p \in Processes, MemoUnauthorized(p) PROVE TypeOK'
    BY <1>7 DEF MemoUnauthorized
  <1>8. ASSUME NEW p \in Processes, RefreshTokens(p) PROVE TypeOK'
    <2>1. PICK rotated \in BOOLEAN :
            Issue(rotated) /\ tokens' = [tokens EXCEPT ![p] = Renewed(p, rotated)]
      BY <1>8 DEF RefreshTokens
    <2>2. tokens[p] \in Pair
      BY <1>8 DEF RefreshTokens, SendInv, Active
    <2>3. Renewed(p, rotated) \in Pair
      BY <2>2 DEF Renewed, Pair
    <2>4. tokens' \in [Processes -> Pair \cup {Absent}]
      BY <2>1, <2>3
    <2>5. issued' \in Nat /\ rotation' \in Nat /\ expired' \in Nat
      BY <2>1 DEF Issue
    <2>6. pc' \in [Processes -> Labels] /\ disturbed' \in BOOLEAN
      BY <1>8 DEF RefreshTokens, Overlaps
    <2>7. UNCHANGED <<file, delivered, result>>
      BY <1>8 DEF RefreshTokens
    <2> QED
      BY <2>4, <2>5, <2>6, <2>7
  <1>9. ASSUME NEW p \in Processes, RefreshAnswerLost(p) PROVE TypeOK'
    <2>1. issued' \in Nat /\ rotation' \in Nat /\ expired' \in Nat
      BY <1>9 DEF RefreshAnswerLost, Issue
    <2> QED
      BY <1>9, <2>1 DEF RefreshAnswerLost
  <1>10. ASSUME NEW p \in Processes, RefreshRefused(p) PROVE TypeOK'
    BY <1>10 DEF RefreshRefused
  <1>11. ASSUME NEW p \in Processes, OpenFile(p) PROVE TypeOK'
    BY <1>11 DEF OpenFile
  <1>12. ASSUME NEW p \in Processes, WriteFile(p) PROVE TypeOK'
    <2>1. file' \in Pair \cup {Absent, Garbage}
      BY <1>12 DEF WriteFile, Overwritten
    <2> QED
      BY <1>12, <2>1 DEF WriteFile
  <1>13. ASSUME NEW p \in Processes, SaveFails(p) PROVE TypeOK'
    BY <1>13 DEF SaveFails
  <1>14. CASE Expire
    BY <1>14 DEF Expire
  <1>15. CASE UNCHANGED vars
    BY <1>15 DEF vars
  <1> QED
    BY <1>1, <1>2, <1>3, <1>4, <1>5, <1>6, <1>7, <1>8, <1>9, <1>10, <1>11,
       <1>12, <1>13, <1>14, <1>15 DEF Next

-----------------------------------------------------------------------------
\* A send that has not ended has neither delivered nor returned anything.
LEMMA StepSends == TypeOK /\ SendInv /\ [Next]_vars => SendInv'
  <1> SUFFICES ASSUME TypeOK, SendInv, [Next]_vars PROVE SendInv'
    OBVIOUS
  <1> USE DEF TypeOK, SendInv, Active, Return, Goto, server
  <1>1. ASSUME NEW p \in Processes, LoadTokens(p) PROVE SendInv'
    BY <1>1 DEF LoadTokens
  <1>2. ASSUME NEW p \in Processes, SetUp(p) PROVE SendInv'
    <2>1. tokens'[p] \in Pair /\ delivered'[p] = 0 /\ result'[p] = "none"
      BY <1>2 DEF SetUp, Pair
    <2>2. \A q \in Processes \ {p} : /\ pc'[q] = pc[q] /\ tokens'[q] = tokens[q]
                                     /\ delivered'[q] = delivered[q]
                                     /\ result'[q] = result[q]
      BY <1>2 DEF SetUp
    <2> QED
      BY <2>1, <2>2
  <1>3. ASSUME NEW p \in Processes, Send(p) PROVE SendInv'
    BY <1>3 DEF Send
  <1>4. ASSUME NEW p \in Processes, Restart(p) PROVE SendInv'
    BY <1>4 DEF Restart
  <1>5. ASSUME NEW p \in Processes, MemoAccepted(p) PROVE SendInv'
    <2>1. delivered[p] = 0
      BY <1>5 DEF MemoAccepted
    <2>2. delivered'[p] = 1 /\ pc'[p] = "idle"
      BY <1>5, <2>1 DEF MemoAccepted
    <2>3. \A q \in Processes \ {p} : /\ pc'[q] = pc[q]
                                     /\ delivered'[q] = delivered[q]
                                     /\ result'[q] = result[q]
      BY <1>5 DEF MemoAccepted
    <2> QED
      BY <1>5, <2>2, <2>3 DEF MemoAccepted
  <1>6. ASSUME NEW p \in Processes, MemoFails(p) PROVE SendInv'
    BY <1>6 DEF MemoFails
  <1>7. ASSUME NEW p \in Processes, MemoUnauthorized(p) PROVE SendInv'
    BY <1>7 DEF MemoUnauthorized
  <1>8. ASSUME NEW p \in Processes, RefreshTokens(p) PROVE SendInv'
    <2>1. PICK rotated \in BOOLEAN :
            tokens' = [tokens EXCEPT ![p] = Renewed(p, rotated)]
      BY <1>8 DEF RefreshTokens
    <2>2. Renewed(p, rotated) \in Pair
      BY <1>8 DEF RefreshTokens, Renewed, Pair
    <2>3. pc' = [pc EXCEPT ![p] = "opening"] /\ pc[p] = "refreshing"
      BY <1>8 DEF RefreshTokens
    <2>4. UNCHANGED <<delivered, result>>
      BY <1>8 DEF RefreshTokens
    <2> QED
      BY <2>1, <2>2, <2>3, <2>4
  <1>9. ASSUME NEW p \in Processes, RefreshAnswerLost(p) PROVE SendInv'
    BY <1>9 DEF RefreshAnswerLost
  <1>10. ASSUME NEW p \in Processes, RefreshRefused(p) PROVE SendInv'
    BY <1>10 DEF RefreshRefused
  <1>11. ASSUME NEW p \in Processes, OpenFile(p) PROVE SendInv'
    BY <1>11 DEF OpenFile
  <1>12. ASSUME NEW p \in Processes, WriteFile(p) PROVE SendInv'
    BY <1>12 DEF WriteFile
  <1>13. ASSUME NEW p \in Processes, SaveFails(p) PROVE SendInv'
    BY <1>13 DEF SaveFails, Saving
  <1>14. CASE Expire
    BY <1>14 DEF Expire
  <1>15. CASE UNCHANGED vars
    BY <1>15 DEF vars
  <1> QED
    BY <1>1, <1>2, <1>3, <1>4, <1>5, <1>6, <1>7, <1>8, <1>9, <1>10, <1>11,
       <1>12, <1>13, <1>14, <1>15 DEF Next

-----------------------------------------------------------------------------
\* A step that starts no save and leaves the file and the tokens of the
\* savers alone keeps SaveInv.
LEMMA NoSaveStep ==
  ASSUME TypeOK, SaveInv, NEW p \in Processes, NEW l,
         ~Saving(p), l \notin {"opening", "writing"},
         pc' = [pc EXCEPT ![p] = l],
         \A q \in Processes \ {p} : tokens'[q] = tokens[q],
         UNCHANGED <<file, rotation, disturbed>>
  PROVE  SaveInv'
  <1>1. \A q \in Processes : /\ pc'[q] = IF q = p THEN l ELSE pc[q]
                             /\ Saving(q)' <=> Saving(q)
    BY DEF TypeOK, Saving
  <1>2. \A q \in Processes : Saving(q) => tokens'[q] = tokens[q]
    OBVIOUS
  <1>3. \A q \in Processes : pc'[q] = "writing" => pc[q] = "writing"
    BY <1>1
  <1> QED
    BY <1>1, <1>2, <1>3 DEF SaveInv

\* A renewal makes p the only saver, or disturbs.
LEMMA RenewalStep ==
  ASSUME TypeOK, NEW p \in Processes,
         pc' = [pc EXCEPT ![p] = "opening"],
         tokens'[p].refresh = rotation',
         disturbed' = (disturbed \/ Overlaps(p))
  PROVE  SaveInv'
  <1> SUFFICES ASSUME ~disturbed' PROVE SaveInv'
    BY DEF SaveInv
  <1>1. ~Overlaps(p)
    OBVIOUS
  <1>2. \A q \in Processes \ {p} : ~Saving(q)
    BY <1>1 DEF Overlaps
  <1>3. \A q \in Processes : Saving(q)' <=> q = p
    BY <1>2 DEF TypeOK, Saving
  <1>4. \A q \in Processes : pc'[q] # "writing"
    BY <1>2 DEF TypeOK, Saving
  <1> QED
    BY <1>3, <1>4 DEF SaveInv

-----------------------------------------------------------------------------
\* Every step keeps the newest refresh token in the file or on its way.
LEMMA StepSaves == TypeOK /\ SendInv /\ SaveInv /\ [Next]_vars => SaveInv'
  <1> SUFFICES ASSUME TypeOK, SendInv, SaveInv, [Next]_vars PROVE SaveInv'
    OBVIOUS
  <1> USE DEF Return, Goto, server
  <1>1. ASSUME NEW p \in Processes, LoadTokens(p) PROVE SaveInv'
    <2>1. pc' = [pc EXCEPT ![p] = "idle"] /\ ~Saving(p)
      BY <1>1 DEF LoadTokens, Saving
    <2>2. \A q \in Processes \ {p} : tokens'[q] = tokens[q]
      BY <1>1 DEF LoadTokens, TypeOK
    <2> QED
      BY <1>1, <2>1, <2>2, NoSaveStep DEF LoadTokens
  <1>2. ASSUME NEW p \in Processes, SetUp(p) PROVE SaveInv'
    <2>1. tokens'[p].refresh = rotation'
      BY <1>2 DEF SetUp, Issue, TypeOK
    <2> QED
      BY <1>2, <2>1, RenewalStep DEF SetUp
  <1>3. ASSUME NEW p \in Processes, Send(p) PROVE SaveInv'
    <2>1. PICK l \in {"idle", "posting"} : pc' = [pc EXCEPT ![p] = l]
      BY <1>3 DEF Send
    <2>2. ~Saving(p) /\ UNCHANGED <<tokens, file, rotation, disturbed>>
      BY <1>3 DEF Send, Saving
    <2> QED
      BY <2>1, <2>2, NoSaveStep
  <1>4. ASSUME NEW p \in Processes, Restart(p) PROVE SaveInv'
    <2>1. CASE Saving(p)
      BY <1>4, <2>1 DEF Restart, SaveInv
    <2>2. CASE ~Saving(p)
      <3>1. \A q \in Processes \ {p} : tokens'[q] = tokens[q]
        BY <1>4 DEF Restart, TypeOK
      <3>2. UNCHANGED <<file, rotation, disturbed>>
        BY <1>4, <2>2 DEF Restart, TypeOK
      <3> QED
        BY <1>4, <2>2, <3>1, <3>2, NoSaveStep DEF Restart
    <2> QED
      BY <2>1, <2>2
  <1>5. ASSUME NEW p \in Processes, MemoAccepted(p) PROVE SaveInv'
    <2>1. pc' = [pc EXCEPT ![p] = "idle"] /\ ~Saving(p)
      BY <1>5 DEF MemoAccepted, Saving
    <2> QED
      BY <1>5, <2>1, NoSaveStep DEF MemoAccepted
  <1>6. ASSUME NEW p \in Processes, MemoFails(p) PROVE SaveInv'
    <2>1. pc' = [pc EXCEPT ![p] = "idle"] /\ ~Saving(p)
      BY <1>6 DEF MemoFails, Saving
    <2> QED
      BY <1>6, <2>1, NoSaveStep DEF MemoFails
  <1>7. ASSUME NEW p \in Processes, MemoUnauthorized(p) PROVE SaveInv'
    <2>1. PICK l \in {"idle", "refreshing"} : pc' = [pc EXCEPT ![p] = l]
      BY <1>7 DEF MemoUnauthorized
    <2>2. ~Saving(p) /\ UNCHANGED <<tokens, file, rotation, disturbed>>
      BY <1>7 DEF MemoUnauthorized, Saving
    <2> QED
      BY <2>1, <2>2, NoSaveStep
  <1>8. ASSUME NEW p \in Processes, RefreshTokens(p) PROVE SaveInv'
    <2>1. PICK rotated \in BOOLEAN :
            Issue(rotated) /\ tokens' = [tokens EXCEPT ![p] = Renewed(p, rotated)]
      BY <1>8 DEF RefreshTokens
    <2>2. tokens'[p] = Renewed(p, rotated)
      BY <2>1 DEF TypeOK
    <2>3. tokens'[p].refresh = rotation'
      BY <1>8, <2>1, <2>2 DEF RefreshTokens, Renewed, Issue
    <2> QED
      BY <1>8, <2>3, RenewalStep DEF RefreshTokens
  <1>9. ASSUME NEW p \in Processes, RefreshAnswerLost(p) PROVE SaveInv'
    BY <1>9 DEF RefreshAnswerLost, SaveInv
  <1>10. ASSUME NEW p \in Processes, RefreshRefused(p) PROVE SaveInv'
    <2>1. pc' = [pc EXCEPT ![p] = "idle"] /\ ~Saving(p)
      BY <1>10 DEF RefreshRefused, Saving
    <2> QED
      BY <1>10, <2>1, NoSaveStep DEF RefreshRefused
  <1>11. ASSUME NEW p \in Processes, OpenFile(p) PROVE SaveInv'
    <2>1. Saving(p)
      BY <1>11 DEF OpenFile, Saving
    <2>2. pc' = [pc EXCEPT ![p] = "writing"]
      BY <1>11 DEF OpenFile
    <2>3. \A q \in Processes : Saving(q)' <=> Saving(q)
      BY <2>1, <2>2 DEF Saving, TypeOK
    <2>4. file' = Empty /\ UNCHANGED <<tokens, rotation, disturbed>>
      BY <1>11 DEF OpenFile
    <2> QED
      BY <2>1, <2>3, <2>4 DEF SaveInv
  <1>12. ASSUME NEW p \in Processes, WriteFile(p) PROVE SaveInv'
    <2> SUFFICES ASSUME ~disturbed' PROVE SaveInv'
      BY DEF SaveInv
    <2>1. ~disturbed /\ UNCHANGED <<tokens, rotation, disturbed>>
      BY <1>12 DEF WriteFile
    <2>2. Saving(p) /\ file = Empty
      BY <1>12, <2>1 DEF WriteFile, Saving, SaveInv
    <2>3. file' = tokens[p] /\ tokens[p] \in Pair
      BY <1>12, <2>2 DEF WriteFile, Overwritten, SendInv, Active
    <2>4. file'.refresh = rotation'
      BY <2>1, <2>2, <2>3 DEF SaveInv
    <2>5. \A q \in Processes \ {p} : ~Saving(q)
      BY <2>1, <2>2 DEF SaveInv
    <2>6. pc' = [pc EXCEPT ![p] = "reposting"]
      BY <1>12 DEF WriteFile
    <2>7. \A q \in Processes : ~Saving(q)' /\ pc'[q] # "writing"
      BY <2>5, <2>6 DEF Saving, TypeOK
    <2> QED
      BY <2>3, <2>4, <2>7 DEF SaveInv
  <1>13. ASSUME NEW p \in Processes, SaveFails(p) PROVE SaveInv'
    BY <1>13 DEF SaveFails, SaveInv
  <1>14. CASE Expire
    BY <1>14 DEF Expire, SaveInv, Saving
  <1>15. CASE UNCHANGED vars
    BY <1>15 DEF vars, SaveInv, Saving
  <1> QED
    BY <1>1, <1>2, <1>3, <1>4, <1>5, <1>6, <1>7, <1>8, <1>9, <1>10, <1>11,
       <1>12, <1>13, <1>14, <1>15 DEF Next

LEMMA Inductive == Spec => []IInv
  <1>1. IInv /\ [Next]_vars => IInv'
    BY StepTypes, StepSends, StepSaves DEF IInv
  <1> QED
    BY InitInv, <1>1, PTL DEF Spec

-----------------------------------------------------------------------------
\* The variables of the notifiers and of the file keep their types.
THEOREM KakaoTypes == Spec => []TypeOK
  <1>1. IInv => TypeOK
    BY DEF IInv
  <1> QED
    BY Inductive, <1>1, PTL

\* No send of any process delivers its message twice or reports a delivery
\* that did not happen, whatever expires or fails during its renewal.
THEOREM OneDelivery == Spec => []SendsOnce
  <1>1. IInv => SendsOnce
    BY DEF IInv, SendInv, SendsOnce
  <1> QED
    BY Inductive, <1>1, PTL

\* Renewals that are neither lost, cut short nor overlapping leave the
\* refresh token that Kakao honours where the next process finds it, however
\* many stale processes there are.
THEOREM SavedRotation == Spec => []NewestIsSaved
  <1>1. IInv => NewestIsSaved
    BY DEF IInv, SaveInv, NewestIsSaved
  <1> QED
    BY Inductive, <1>1, PTL

=============================================================================
