--------------------------- MODULE AccountsProofs ---------------------------
(***************************************************************************)
(* The safety properties that Accounts and its parts state, for any        *)
(* accounts, sign-ins, generations, runtimes and failures.                 *)
(***************************************************************************)
EXTENDS Accounts, TLAPS

-----------------------------------------------------------------------------
(* Plan sign-in. The inductive invariant adds to the properties that a      *)
(* sign-in is pending as long as its thread is alive, that a pending one    *)
(* that was cancelled finds the flag set, and when it can have stored its   *)
(* tokens.                                                                  *)

\* A thread serves the pending sign-in, which is the last that began.
ThreadServesPending ==
    /\ attempts \in 0..MaxAttempts
    /\ thread = "none" <=> pending = 0
    /\ pending # 0 => pending = attempts
    /\ cancelled \cup stored \subseteq 1..attempts
    /\ refresh.account \in Accounts \cup {None} /\ refresh.grant \in Grants
    /\ out \subseteq Accounts /\ cleared \in BOOLEAN

\* A sign-in that was cancelled finds the flag set, and one that stored tokens is at its end.
CancelIsSeen ==
    pending # 0 =>
        /\ pending \in cancelled => cancel
        /\ pending \in stored => thread \in {"stored", "finishing"}

\* A reset leaves no sign-in behind.
ClearedIsQuiet == cleared => thread = "none"

SignInInv ==
    /\ TypeOK /\ ThreadServesPending /\ CancelIsSeen /\ ClearedIsQuiet
    /\ CancelStoresNothing /\ SignedOutStaysOut

\* A pending sign-in is one of those that began.
LEMMA PendingIsAnAttempt == ThreadServesPending /\ pending # 0 => pending \in 1..attempts
  <1> SUFFICES ASSUME ThreadServesPending, pending # 0 PROVE pending \in 1..attempts
    OBVIOUS
  <1>1. attempts \in 0..MaxAttempts
    BY DEF ThreadServesPending
  <1>2. pending = attempts
    BY DEF ThreadServesPending
  <1> QED
    BY <1>1, <1>2, PlanAssumption

USE DEF vault, signin, history, others, ThreadGoes, Idle, Fault, NoFault, Grants

\* Each action of the sign-in keeps the inductive invariant.
LEMMA SignInStep == SignInInv /\ Next => SignInInv'
  <1> SUFFICES ASSUME SignInInv, Next PROVE SignInInv'
    OBVIOUS
  <1> USE PlanAssumption DEF SignInInv
  <1>1. ASSUME NEW a \in Accounts \cup {None}, SignIn(a) PROVE SignInInv'
    <2>0. pending' = attempts + 1 /\ attempts' = attempts + 1 /\ attempts + 1 \in 1..MaxAttempts
      BY <1>1 DEF SignIn, ThreadServesPending
    <2>1. TypeOK'
      <3>1. (present \in BOOLEAN /\ known \subseteq Accounts)'
        BY <1>1, <2>0 DEF SignIn, TypeOK
      <3>2. (tokens \in [Accounts -> Grants])'
        BY <1>1, <2>0 DEF SignIn, TypeOK
      <3>3. (active \in Accounts \cup {None})'
        BY <1>1, <2>0 DEF SignIn, TypeOK
      <3>4. (pending \in 0..MaxAttempts /\ target \in Accounts \cup {None})'
        BY <1>1, <2>0 DEF SignIn, TypeOK
      <3>5. (cancel \in BOOLEAN /\ failed \in BOOLEAN)'
        BY <1>1, <2>0 DEF SignIn, TypeOK
      <3>6. (/\ thread \in {"none", "waiting", "exchanging", "checking", "storing", "stored",
                  "failing", "finishing"}
            /\ control \in {"idle", "signing out", "resetting", "closing", "refreshing", "quit"})'
        BY <1>1, <2>0 DEF SignIn, TypeOK
      <3>7. (hand \in Grants /\ revoked \subseteq Grants)'
        BY <1>1, <2>0 DEF SignIn, TypeOK
      <3> QED
        BY <3>1, <3>2, <3>3, <3>4, <3>5, <3>6, <3>7 DEF TypeOK
    <2>2. ThreadServesPending' /\ CancelIsSeen' /\ ClearedIsQuiet'
      <3>1. ThreadServesPending'
        <4>1. (attempts \in 0..MaxAttempts)'
          BY <1>1, <2>0 DEF SignIn, ThreadServesPending
        <4>2. (cancelled \cup stored \subseteq 1..attempts)'
          BY <1>1, <2>0 DEF SignIn, ThreadServesPending
        <4>3. (refresh.account \in Accounts \cup {None} /\ refresh.grant \in Grants)'
          BY <1>1, <2>0 DEF SignIn, ThreadServesPending
        <4>4. ((thread = "none" <=> pending = 0) /\ (pending # 0 => pending = attempts))'
          BY <1>1, <2>0 DEF SignIn, ThreadServesPending
        <4>5. (out \subseteq Accounts)'
          BY <1>1, <2>0 DEF SignIn, ThreadServesPending
        <4>6. (cleared \in BOOLEAN)'
          BY <1>1, <2>0 DEF SignIn, ThreadServesPending
        <4> QED
          BY <4>1, <4>2, <4>3, <4>4, <4>5, <4>6 DEF ThreadServesPending
      <3>2. CancelIsSeen'
        BY <1>1, <2>0 DEF SignIn, ThreadServesPending, CancelIsSeen
      <3>3. ClearedIsQuiet'
        BY <1>1 DEF SignIn, ClearedIsQuiet
      <3> QED
        BY <3>1, <3>2, <3>3
    <2>3. CancelStoresNothing'
      BY <1>1 DEF SignIn, TypeOK, ThreadServesPending, CancelIsSeen, CancelStoresNothing
    <2>4. SignedOutStaysOut'
      BY <1>1 DEF SignIn, TypeOK, ThreadServesPending, ClearedIsQuiet, SignedOutStaysOut
    <2> QED
      BY <2>1, <2>2, <2>3, <2>4
  <1>2. ASSUME NEW a \in Accounts, Select(a) PROVE SignInInv'
    <2>1. TypeOK'
      BY <1>2 DEF Select, TypeOK, ThreadServesPending
    <2>2. ThreadServesPending' /\ CancelIsSeen' /\ ClearedIsQuiet'
      BY <1>2 DEF Select, TypeOK, ThreadServesPending, CancelIsSeen, ClearedIsQuiet
    <2>3. CancelStoresNothing'
      BY <1>2 DEF Select, TypeOK, ThreadServesPending, CancelIsSeen, CancelStoresNothing
    <2>4. SignedOutStaysOut'
      BY <1>2 DEF Select, TypeOK, ThreadServesPending, ClearedIsQuiet, SignedOutStaysOut
    <2> QED
      BY <2>1, <2>2, <2>3, <2>4
  <1>3. ASSUME Cancel PROVE SignInInv'
    <2>1. TypeOK'
      BY <1>3 DEF Cancel, SetCancel, TypeOK, ThreadServesPending
    <2>2. ThreadServesPending' /\ CancelIsSeen' /\ ClearedIsQuiet'
      BY <1>3 DEF Cancel, SetCancel, TypeOK, ThreadServesPending, CancelIsSeen, ClearedIsQuiet
    <2>3. CancelStoresNothing'
      BY <1>3 DEF Cancel, SetCancel, TypeOK, ThreadServesPending, CancelIsSeen,
         CancelStoresNothing
    <2>4. SignedOutStaysOut'
      BY <1>3 DEF Cancel, SetCancel, TypeOK, ThreadServesPending, ClearedIsQuiet,
         SignedOutStaysOut
    <2> QED
      BY <2>1, <2>2, <2>3, <2>4
  <1>4. ASSUME NEW what \in {"signing out", "resetting", "closing"}, Begin(what) PROVE SignInInv'
    <2>1. TypeOK'
      BY <1>4 DEF Begin, SetCancel, TypeOK, ThreadServesPending
    <2>2. ThreadServesPending' /\ CancelIsSeen' /\ ClearedIsQuiet'
      <3>1. CASE SetCancel
        <4>1. ThreadServesPending'
          <5>1. (attempts \in 0..MaxAttempts)'
            BY <1>4, <3>1 DEF Begin, SetCancel, ThreadServesPending
          <5>2. (cancelled \cup stored \subseteq 1..attempts)'
            <6>1. pending # 0 => pending \in 1..attempts
              BY PendingIsAnAttempt
            <6>2. cancelled \cup stored \subseteq 1..attempts
              BY DEF ThreadServesPending
            <6>3. cancelled' \subseteq cancelled \cup (IF pending = 0 THEN {} ELSE {pending})
              BY <3>1 DEF SetCancel
            <6>4. stored' = stored /\ attempts' = attempts
              BY <1>4 DEF Begin
            <6> QED
              BY <6>1, <6>2, <6>3, <6>4
          <5>3. (refresh.account \in Accounts \cup {None} /\ refresh.grant \in Grants)'
            BY <1>4, <3>1 DEF Begin, SetCancel, ThreadServesPending
          <5>4. ((thread = "none" <=> pending = 0) /\ (pending # 0 => pending = attempts))'
            BY <1>4, <3>1 DEF Begin, SetCancel, ThreadServesPending
          <5>5. (out \subseteq Accounts)'
            BY <1>4, <3>1 DEF Begin, SetCancel, ThreadServesPending
          <5>6. (cleared \in BOOLEAN)'
            BY <1>4, <3>1 DEF Begin, SetCancel, ThreadServesPending
          <5> QED
            BY <5>1, <5>2, <5>3, <5>4, <5>5, <5>6 DEF ThreadServesPending
        <4>2. ClearedIsQuiet'
          BY <1>4, <3>1 DEF Begin, SetCancel, ClearedIsQuiet
        <4>3. CancelIsSeen'
          BY <1>4, <3>1 DEF Begin, SetCancel, CancelIsSeen
        <4> QED
          BY <4>1, <4>2, <4>3
      <3>2. CASE UNCHANGED <<signin, cancelled>>
        BY <1>4, <3>2 DEF Begin, TypeOK, ThreadServesPending, CancelIsSeen, ClearedIsQuiet
      <3> QED
        BY <1>4, <3>1, <3>2 DEF Begin
    <2>3. CancelStoresNothing'
      BY <1>4 DEF Begin, SetCancel, TypeOK, ThreadServesPending, CancelIsSeen,
         CancelStoresNothing
    <2>4. SignedOutStaysOut'
      BY <1>4 DEF Begin, SetCancel, TypeOK, ThreadServesPending, ClearedIsQuiet,
         SignedOutStaysOut
    <2> QED
      BY <2>1, <2>2, <2>3, <2>4
  <1>5. ASSUME Refused PROVE SignInInv'
    <2>1. TypeOK'
      BY <1>5 DEF Refused, TypeOK, ThreadServesPending
    <2>2. ThreadServesPending' /\ CancelIsSeen' /\ ClearedIsQuiet'
      BY <1>5 DEF Refused, TypeOK, ThreadServesPending, CancelIsSeen, ClearedIsQuiet
    <2>3. CancelStoresNothing'
      BY <1>5 DEF Refused, TypeOK, ThreadServesPending, CancelIsSeen, CancelStoresNothing
    <2>4. SignedOutStaysOut'
      BY <1>5 DEF Refused, TypeOK, ThreadServesPending, ClearedIsQuiet, SignedOutStaysOut
    <2> QED
      BY <2>1, <2>2, <2>3, <2>4
  <1>6. ASSUME NothingToSignOut PROVE SignInInv'
    <2>1. TypeOK'
      BY <1>6 DEF NothingToSignOut, Connected, TypeOK, ThreadServesPending
    <2>2. ThreadServesPending' /\ CancelIsSeen' /\ ClearedIsQuiet'
      BY <1>6 DEF NothingToSignOut, Connected, TypeOK, ThreadServesPending, CancelIsSeen,
         ClearedIsQuiet
    <2>3. CancelStoresNothing'
      BY <1>6 DEF NothingToSignOut, Connected, TypeOK, ThreadServesPending, CancelIsSeen,
         CancelStoresNothing
    <2>4. SignedOutStaysOut'
      BY <1>6 DEF NothingToSignOut, Connected, TypeOK, ThreadServesPending, ClearedIsQuiet,
         SignedOutStaysOut
    <2> QED
      BY <2>1, <2>2, <2>3, <2>4
  <1>7. ASSUME SignOut PROVE SignInInv'
    <2>1. TypeOK'
      <3>1. (present \in BOOLEAN /\ known \subseteq Accounts)'
        BY <1>7 DEF SignOut, Connected, TypeOK
      <3>2. (tokens \in [Accounts -> Grants])'
        <4>1. 0 \in Grants
          OBVIOUS
        <4>2. tokens \in [Accounts -> Grants]
          BY DEF TypeOK
        <4>3. tokens' = tokens \/ tokens' = [tokens EXCEPT ![active] = 0]
          BY <1>7 DEF SignOut
        <4> HIDE DEF Grants
        <4> QED
          BY <4>1, <4>2, <4>3
      <3>3. (active \in Accounts \cup {None})'
        BY <1>7 DEF SignOut, Connected, TypeOK
      <3>4. (pending \in 0..MaxAttempts /\ target \in Accounts \cup {None})'
        BY <1>7 DEF SignOut, Connected, TypeOK
      <3>5. (cancel \in BOOLEAN /\ failed \in BOOLEAN)'
        BY <1>7 DEF SignOut, Connected, TypeOK
      <3>6. (/\ thread \in {"none", "waiting", "exchanging", "checking", "storing", "stored",
                  "failing", "finishing"}
            /\ control \in {"idle", "signing out", "resetting", "closing", "refreshing", "quit"})'
        BY <1>7 DEF SignOut, Connected, TypeOK
      <3>7. (hand \in Grants /\ revoked \subseteq Grants)'
        BY <1>7 DEF SignOut, Connected, TypeOK
      <3> QED
        BY <3>1, <3>2, <3>3, <3>4, <3>5, <3>6, <3>7 DEF TypeOK
    <2>2. ThreadServesPending' /\ CancelIsSeen' /\ ClearedIsQuiet'
      BY <1>7 DEF SignOut, Connected, TypeOK, ThreadServesPending, CancelIsSeen, ClearedIsQuiet
    <2>3. CancelStoresNothing'
      BY <1>7 DEF SignOut, Connected, TypeOK, ThreadServesPending, CancelIsSeen,
         CancelStoresNothing
    <2>4. SignedOutStaysOut'
      BY <1>7 DEF SignOut, Connected, TypeOK, ThreadServesPending, ClearedIsQuiet,
         SignedOutStaysOut
    <2> QED
      BY <2>1, <2>2, <2>3, <2>4
  <1>8. ASSUME Reset PROVE SignInInv'
    <2>1. TypeOK'
      BY <1>8 DEF Reset, Connections, TypeOK, ThreadServesPending
    <2>2. ThreadServesPending' /\ CancelIsSeen' /\ ClearedIsQuiet'
      BY <1>8 DEF Reset, Connections, TypeOK, ThreadServesPending, CancelIsSeen, ClearedIsQuiet
    <2>3. CancelStoresNothing'
      BY <1>8 DEF Reset, Connections, TypeOK, ThreadServesPending, CancelIsSeen,
         CancelStoresNothing
    <2>4. SignedOutStaysOut'
      BY <1>8 DEF Reset, Connections, TypeOK, ThreadServesPending, ClearedIsQuiet,
         SignedOutStaysOut
    <2> QED
      BY <2>1, <2>2, <2>3, <2>4
  <1>9. ASSUME Quit PROVE SignInInv'
    <2>1. TypeOK'
      BY <1>9 DEF Quit, TypeOK, ThreadServesPending
    <2>2. ThreadServesPending' /\ CancelIsSeen' /\ ClearedIsQuiet'
      BY <1>9 DEF Quit, TypeOK, ThreadServesPending, CancelIsSeen, ClearedIsQuiet
    <2>3. CancelStoresNothing'
      BY <1>9 DEF Quit, TypeOK, ThreadServesPending, CancelIsSeen, CancelStoresNothing
    <2>4. SignedOutStaysOut'
      BY <1>9 DEF Quit, TypeOK, ThreadServesPending, ClearedIsQuiet, SignedOutStaysOut
    <2> QED
      BY <2>1, <2>2, <2>3, <2>4
  <1>10. ASSUME Refresh PROVE SignInInv'
    <2>1. TypeOK'
      BY <1>10 DEF Refresh, Connected, TypeOK, ThreadServesPending
    <2>2. ThreadServesPending' /\ CancelIsSeen' /\ ClearedIsQuiet'
      BY <1>10 DEF Refresh, Connected, TypeOK, ThreadServesPending, CancelIsSeen, ClearedIsQuiet
    <2>3. CancelStoresNothing'
      BY <1>10 DEF Refresh, Connected, TypeOK, ThreadServesPending, CancelIsSeen,
         CancelStoresNothing
    <2>4. SignedOutStaysOut'
      BY <1>10 DEF Refresh, Connected, TypeOK, ThreadServesPending, ClearedIsQuiet,
         SignedOutStaysOut
    <2> QED
      BY <2>1, <2>2, <2>3, <2>4
  <1>11. ASSUME Refreshed PROVE SignInInv'
    <2>1. TypeOK'
      BY <1>11 DEF Refreshed, Connected, TypeOK, ThreadServesPending
    <2>2. ThreadServesPending' /\ CancelIsSeen' /\ ClearedIsQuiet'
      BY <1>11 DEF Refreshed, Connected, TypeOK, ThreadServesPending, CancelIsSeen,
         ClearedIsQuiet
    <2>3. CancelStoresNothing'
      BY <1>11 DEF Refreshed, Connected, TypeOK, ThreadServesPending, CancelIsSeen,
         CancelStoresNothing
    <2>4. SignedOutStaysOut'
      BY <1>11 DEF Refreshed, Connected, TypeOK, ThreadServesPending, ClearedIsQuiet,
         SignedOutStaysOut
    <2> QED
      BY <2>1, <2>2, <2>3, <2>4
  <1>12. ASSUME Wait PROVE SignInInv'
    <2>1. TypeOK'
      BY <1>12 DEF Wait, TypeOK, ThreadServesPending
    <2>2. ThreadServesPending' /\ CancelIsSeen' /\ ClearedIsQuiet'
      BY <1>12 DEF Wait, TypeOK, ThreadServesPending, CancelIsSeen, ClearedIsQuiet
    <2>3. CancelStoresNothing'
      BY <1>12 DEF Wait, TypeOK, ThreadServesPending, CancelIsSeen, CancelStoresNothing
    <2>4. SignedOutStaysOut'
      BY <1>12 DEF Wait, TypeOK, ThreadServesPending, ClearedIsQuiet, SignedOutStaysOut
    <2> QED
      BY <2>1, <2>2, <2>3, <2>4
  <1>13. ASSUME Exchange PROVE SignInInv'
    <2>1. TypeOK'
      BY <1>13 DEF Exchange, TypeOK, ThreadServesPending
    <2>2. ThreadServesPending' /\ CancelIsSeen' /\ ClearedIsQuiet'
      BY <1>13 DEF Exchange, TypeOK, ThreadServesPending, CancelIsSeen, ClearedIsQuiet
    <2>3. CancelStoresNothing'
      BY <1>13 DEF Exchange, TypeOK, ThreadServesPending, CancelIsSeen, CancelStoresNothing
    <2>4. SignedOutStaysOut'
      BY <1>13 DEF Exchange, TypeOK, ThreadServesPending, ClearedIsQuiet, SignedOutStaysOut
    <2> QED
      BY <2>1, <2>2, <2>3, <2>4
  <1>14. ASSUME Check PROVE SignInInv'
    <2>1. TypeOK'
      BY <1>14 DEF Check, TypeOK, ThreadServesPending
    <2>2. ThreadServesPending' /\ CancelIsSeen' /\ ClearedIsQuiet'
      BY <1>14 DEF Check, TypeOK, ThreadServesPending, CancelIsSeen, ClearedIsQuiet
    <2>3. CancelStoresNothing'
      BY <1>14 DEF Check, TypeOK, ThreadServesPending, CancelIsSeen, CancelStoresNothing
    <2>4. SignedOutStaysOut'
      BY <1>14 DEF Check, TypeOK, ThreadServesPending, ClearedIsQuiet, SignedOutStaysOut
    <2> QED
      BY <2>1, <2>2, <2>3, <2>4
  <1>15. ASSUME Store PROVE SignInInv'
    <2>1. TypeOK'
      <3>1. (present \in BOOLEAN /\ known \subseteq Accounts)'
        BY <1>15 DEF Store, Slot, TypeOK
      <3>2. (tokens \in [Accounts -> Grants])'
        BY <1>15 DEF Store, Slot, TypeOK
      <3>3. (active \in Accounts \cup {None})'
        BY <1>15 DEF Store, Slot, TypeOK
      <3>4. (pending \in 0..MaxAttempts /\ target \in Accounts \cup {None})'
        BY <1>15 DEF Store, Slot, TypeOK
      <3>5. (cancel \in BOOLEAN /\ failed \in BOOLEAN)'
        BY <1>15 DEF Store, Slot, TypeOK
      <3>6. (/\ thread \in {"none", "waiting", "exchanging", "checking", "storing", "stored",
                  "failing", "finishing"}
            /\ control \in {"idle", "signing out", "resetting", "closing", "refreshing", "quit"})'
        BY <1>15 DEF Store, Slot, TypeOK
      <3>7. (hand \in Grants /\ revoked \subseteq Grants)'
        BY <1>15 DEF Store, Slot, TypeOK
      <3> QED
        BY <3>1, <3>2, <3>3, <3>4, <3>5, <3>6, <3>7 DEF TypeOK
    <2>2. ThreadServesPending' /\ CancelIsSeen' /\ ClearedIsQuiet'
      <3>1. ThreadServesPending' /\ ClearedIsQuiet'
        <4>1. ThreadServesPending'
          <5>1. (attempts \in 0..MaxAttempts)'
            BY <1>15 DEF Store, Slot, ThreadServesPending
          <5>2. (cancelled \cup stored \subseteq 1..attempts)'
            BY <1>15 DEF Store, Slot, ThreadServesPending
          <5>3. (refresh.account \in Accounts \cup {None} /\ refresh.grant \in Grants)'
            BY <1>15 DEF Store, Slot, ThreadServesPending
          <5>4. ((thread = "none" <=> pending = 0) /\ (pending # 0 => pending = attempts))'
            BY <1>15 DEF Store, Slot, ThreadServesPending
          <5>5. (out \subseteq Accounts)'
            BY <1>15 DEF Store, Slot, ThreadServesPending
          <5>6. (cleared \in BOOLEAN)'
            BY <1>15 DEF Store, Slot, ThreadServesPending
          <5> QED
            BY <5>1, <5>2, <5>3, <5>4, <5>5, <5>6 DEF ThreadServesPending
        <4>2. ClearedIsQuiet'
          BY <1>15 DEF Store, ClearedIsQuiet
        <4> QED
          BY <4>1, <4>2
      <3>2. CancelIsSeen'
        BY <1>15 DEF Store, CancelIsSeen
      <3> QED
        BY <3>1, <3>2
    <2>3. CancelStoresNothing'
      BY <1>15, ZenonT(40) DEF Store, Slot, TypeOK, ThreadServesPending, CancelIsSeen, CancelStoresNothing
    <2>4. SignedOutStaysOut'
      BY <1>15 DEF Store, Slot, TypeOK, ThreadServesPending, ClearedIsQuiet, SignedOutStaysOut
    <2> QED
      BY <2>1, <2>2, <2>3, <2>4
  <1>16. ASSUME Note PROVE SignInInv'
    <2>1. TypeOK'
      BY <1>16 DEF Note, TypeOK, ThreadServesPending
    <2>2. ThreadServesPending' /\ CancelIsSeen' /\ ClearedIsQuiet'
      BY <1>16 DEF Note, TypeOK, ThreadServesPending, CancelIsSeen, ClearedIsQuiet
    <2>3. CancelStoresNothing'
      BY <1>16 DEF Note, TypeOK, ThreadServesPending, CancelIsSeen, CancelStoresNothing
    <2>4. SignedOutStaysOut'
      BY <1>16 DEF Note, TypeOK, ThreadServesPending, ClearedIsQuiet, SignedOutStaysOut
    <2> QED
      BY <2>1, <2>2, <2>3, <2>4
  <1>17. ASSUME Finish PROVE SignInInv'
    <2>1. TypeOK'
      <3>1. (present \in BOOLEAN /\ known \subseteq Accounts)'
        BY <1>17 DEF Finish, TypeOK
      <3>2. (tokens \in [Accounts -> Grants])'
        BY <1>17 DEF Finish, TypeOK
      <3>3. (active \in Accounts \cup {None})'
        BY <1>17 DEF Finish, TypeOK
      <3>4. (pending \in 0..MaxAttempts /\ target \in Accounts \cup {None})'
        <4>1. pending' = 0 /\ target' = None
          BY <1>17 DEF Finish
        <4> QED
          BY <4>1
      <3>5. (cancel \in BOOLEAN /\ failed \in BOOLEAN)'
        BY <1>17 DEF Finish, TypeOK
      <3>6. (/\ thread \in {"none", "waiting", "exchanging", "checking", "storing", "stored",
                  "failing", "finishing"}
            /\ control \in {"idle", "signing out", "resetting", "closing", "refreshing", "quit"})'
        BY <1>17 DEF Finish, TypeOK
      <3>7. (hand \in Grants /\ revoked \subseteq Grants)'
        <4>1. hand' = 0 /\ revoked' = revoked /\ revoked \subseteq Grants
          BY <1>17 DEF Finish, TypeOK
        <4> QED
          BY <4>1
      <3> QED
        BY <3>1, <3>2, <3>3, <3>4, <3>5, <3>6, <3>7 DEF TypeOK
    <2>2. ThreadServesPending' /\ CancelIsSeen' /\ ClearedIsQuiet'
      BY <1>17 DEF Finish, TypeOK, ThreadServesPending, CancelIsSeen, ClearedIsQuiet
    <2>3. CancelStoresNothing'
      BY <1>17 DEF Finish, TypeOK, ThreadServesPending, CancelIsSeen, CancelStoresNothing
    <2>4. SignedOutStaysOut'
      BY <1>17 DEF Finish, TypeOK, ThreadServesPending, ClearedIsQuiet, SignedOutStaysOut
    <2> QED
      BY <2>1, <2>2, <2>3, <2>4
  <1> QED
    BY <1>1, <1>2, <1>3, <1>4, <1>5, <1>6, <1>7, <1>8, <1>9, <1>10, <1>11, <1>12, <1>13, <1>14,
       <1>15, <1>16, <1>17 DEF Next, ThreadStep

\* The inductive invariant of the sign-in holds of every behaviour.
THEOREM SignInInvariant == Spec => []SignInInv
  <1>1. Init => SignInInv
    <2> SUFFICES ASSUME Init PROVE SignInInv
      OBVIOUS
    <2>1. TypeOK
      <3>1. (present \in BOOLEAN /\ known \subseteq Accounts)
        BY PlanAssumption DEF Init
      <3>2. (tokens \in [Accounts -> Grants])
        BY PlanAssumption DEF Init
      <3>3. (active \in Accounts \cup {None})
        BY PlanAssumption DEF Init
      <3>4. (pending \in 0..MaxAttempts /\ target \in Accounts \cup {None})
        BY PlanAssumption DEF Init
      <3>5. (cancel \in BOOLEAN /\ failed \in BOOLEAN)
        BY PlanAssumption DEF Init
      <3>6. (/\ thread \in {"none", "waiting", "exchanging", "checking", "storing", "stored",
                  "failing", "finishing"}
            /\ control \in {"idle", "signing out", "resetting", "closing", "refreshing", "quit"})
        BY PlanAssumption DEF Init
      <3>7. (hand \in Grants /\ revoked \subseteq Grants)
        BY PlanAssumption DEF Init
      <3> QED
        BY <3>1, <3>2, <3>3, <3>4, <3>5, <3>6, <3>7 DEF TypeOK
    <2>2. ThreadServesPending
      <3>1. attempts \in 0..MaxAttempts /\ cancelled \cup stored \subseteq 1..attempts
        BY PlanAssumption DEF Init
      <3>2. refresh.account \in Accounts \cup {None} /\ refresh.grant \in Grants
        BY PlanAssumption DEF Init
      <3>3. (thread = "none" <=> pending = 0) /\ (pending # 0 => pending = attempts)
        BY DEF Init
      <3>4. out \subseteq Accounts /\ cleared \in BOOLEAN
        BY DEF Init
      <3> QED
        BY <3>1, <3>2, <3>3, <3>4 DEF ThreadServesPending
    <2>3. CancelIsSeen /\ ClearedIsQuiet /\ CancelStoresNothing /\ SignedOutStaysOut
      BY DEF Init, CancelIsSeen, ClearedIsQuiet, CancelStoresNothing, SignedOutStaysOut
    <2> QED
      BY <2>1, <2>2, <2>3 DEF SignInInv
  <1>2. SignInInv /\ UNCHANGED vars => SignInInv'
    <2> SUFFICES ASSUME SignInInv, UNCHANGED vars PROVE SignInInv'
      OBVIOUS
    <2>1. TypeOK'
      BY DEF vars, TypeOK, SignInInv
    <2>2. ThreadServesPending'
      BY DEF vars, ThreadServesPending, SignInInv
    <2>3. CancelIsSeen' /\ ClearedIsQuiet' /\ CancelStoresNothing' /\ SignedOutStaysOut'
      BY DEF vars, SignInInv, CancelIsSeen, ClearedIsQuiet, CancelStoresNothing,
         SignedOutStaysOut
    <2> QED
      BY <2>1, <2>2, <2>3 DEF SignInInv
  <1> QED
    BY <1>1, <1>2, SignInStep, PTL DEF Spec

\* Every variable keeps its type.
THEOREM TypeCorrect == Spec => []TypeOK
  <1>1. SignInInv => TypeOK
    BY DEF SignInInv
  <1> QED
    BY <1>1, SignInInvariant, PTL

\* A sign-in that was cancelled before its tokens were in the vault never puts them there
\* (chatgpt_plan_auth.py:248-292, 359-423, 485-574).
THEOREM CancelledSignInsStoreNothing == Spec => []CancelStoresNothing
  <1>1. SignInInv => CancelStoresNothing
    BY DEF SignInInv
  <1> QED
    BY <1>1, SignInInvariant, PTL

\* What was signed out or reset has no tokens until a sign-in begun since stores some
\* (chatgpt_plan_auth.py:260-292, 359-397, 536-574, 640-698).
THEOREM SignedOutAccountsStayOut == Spec => []SignedOutStaysOut
  <1>1. SignInInv => SignedOutStaysOut
    BY DEF SignInInv
  <1> QED
    BY <1>1, SignInInvariant, PTL

-----------------------------------------------------------------------------
(* The Codex runtime. Its invariant adds where a turn can be while it runs, *)
(* and what the queue of a runtime says of turns.                           *)

\* The types of CodexRuntime's variables, those that its TypeOK leaves out included:
\* the provider and its runtimes, ...
ProviderTypes ==
    /\ started \in 0..MaxServers /\ server \in 0..started
    /\ up \subseteq 1..started
    /\ lock \in C!Threads \cup {None} /\ generation \in C!Gens \cup {None}
    /\ account \in {"out", "pending", "in"} /\ codexFaults \in 0..MaxCodexFaults
Switches ==
    /\ signedIn \in BOOLEAN /\ login \in BOOLEAN
    /\ error \in BOOLEAN /\ loginFailed \in BOOLEAN

\* ... the threads, with what they have in hand, ...
ThreadTypes ==
    /\ pc \in [C!Threads -> {"idle", "opening", "login", "browser", "reading", "closing", "quit",
                             "new", "queued", "check", "auth", "adopt", "thread",
                             "ready", "turn", "purging", "purged", "leaving", "done"}]
    /\ executor \in [C!Gens -> {"idle", "waiting", "left"}]
    /\ id \in [C!Gens -> 0..MaxIds]
FlagTypes ==
    /\ flags \in [C!Ids -> {"absent", "clear", "set"}]
    /\ reply \in [C!Threads -> {"none", "unread", "out", "pending", "in"} \cup C!Replies]

\* ... and the turns.
TurnTypes ==
    /\ on \in [C!Gens -> 0..started] /\ closed \subseteq 1..started
    /\ \A g \in threads : on[g] # 0
    /\ turn \in [C!Gens -> {"none", "running", "told", "over"}]
    /\ queue \in [C!Runtimes -> SUBSET [of : C!Gens, what : {"done", "tool"}]]
    /\ answer \in [C!Gens -> C!Gens \cup {None}]
    /\ unanswered \subseteq C!Gens /\ threads \subseteq C!Gens

Locked == {"opening", "login", "browser", "reading", "closing", "auth"}
Generating == {"check", "auth", "adopt", "thread", "ready", "turn", "purging", "purged", "leaving"}

CodexTypes == ProviderTypes /\ Switches /\ ThreadTypes /\ FlagTypes /\ TurnTypes

\* Where the turn of a generation is: it begins when the generation is ready for it,
\* and while it runs, and was said to, its generation listens to it or is about to end
\* the runtime.
TurnInPlace(g) ==
    /\ turn[g] # "none" => pc[g] \in {"turn", "purging", "purged", "leaving", "done"}
    /\ turn[g] = "running" /\ g \notin unanswered /\ on[g] \in up
          => pc[g] \in {"turn", "purging", "purged"}

TurnsInPlace == \A g \in C!Gens : TurnInPlace(g)

\* What is queued is said of turns that are over.
QueueTrue ==
    \A s \in C!Runtimes : \A e \in queue[s] : e.of \in C!Gens /\ turn[e.of] = "over"

\* Where the control thread can be, and where a generation.
ThreadsInPlace ==
    /\ pc[C!Control] \in {"idle", "opening", "login", "browser", "reading", "closing", "quit"}
    /\ \A g \in C!Gens : pc[g] \in {"new", "queued", "done"} \cup Generating

\* The two locks: a thread has the account lock exactly while it is in a request about the
\* account, and a generation is the one that generates exactly from its turn to its end.
LocksHeld ==
    /\ \A t \in C!Threads : pc[t] \in Locked <=> lock = t
    /\ \A g \in C!Gens : pc[g] \in Generating <=> generation = g

\* The inductive invariant.
CodexInv ==
    /\ CodexTypes /\ OneRuntime /\ AnswerIsOwn /\ QueueTrue /\ TurnsInPlace
    /\ ThreadsInPlace /\ LocksHeld

USE DEF C!provider, C!runtimes, C!world, C!local, C!frame, C!Gens, C!Control, C!Threads,
        C!Runtimes, C!Ids, C!Fault, C!NoFault, C!MayRead, C!HasRead, C!Subscribed


\* What close leaves behind.
LEMMA CloseKeeps ==
    ASSUME ProviderTypes, closed \subseteq 1..started, C!Close
    PROVE  /\ server' = 0 /\ started' = started
           /\ up' \subseteq up /\ up' = up \ {server} /\ closed' \subseteq 1..started
BY DEF ProviderTypes, C!Close

\* The provider and its runtimes keep their types ...
LEMMA ProviderTypesStep ==
    ProviderTypes /\ TurnTypes /\ (C!Next \/ UNCHANGED codexVars) => ProviderTypes'
<1> SUFFICES ASSUME ProviderTypes, TurnTypes, C!Next \/ UNCHANGED codexVars
             PROVE  ProviderTypes'
  OBVIOUS
<1> USE CodexAssumed DEF C!CodexAssumption, ProviderTypes, TurnTypes
<1>1. CASE C!SignIn
  <2>1. CASE server # 0
    BY <1>1, <2>1 DEF C!SignIn, C!Call
  <2>2. CASE server = 0
    <3>1. /\ started' = started + 1 /\ server' = started + 1 /\ up' = up \cup {started + 1}
          /\ started + 1 \in 0..MaxServers
      BY <1>1, <2>2 DEF C!SignIn
    <3>2. server' \in 0..started' /\ up' \subseteq 1..started'
      BY <3>1
    <3>3. (lock \in C!Threads \cup {None} /\ generation \in C!Gens \cup {None}
           /\ account \in {"out", "pending", "in"} /\ codexFaults \in 0..MaxCodexFaults)'
      BY <1>1, <2>2 DEF C!SignIn, C!Call
    <3> QED
      BY <3>1, <3>2, <3>3
  <2> QED
    BY <2>1, <2>2
<1>2. CASE C!Status
  BY <1>2 DEF C!Status, C!Call, C!GoTo
<1>3. CASE C!SignOut
  BY <1>3 DEF C!SignOut, C!Call, C!GoTo, C!Rpc
<1>4. CASE C!Shutdown
  BY <1>4 DEF C!Shutdown, C!GoTo, C!Close
<1>5. CASE C!Health
  BY <1>5 DEF C!Health
<1>6. CASE C!Opened
  BY <1>6 DEF C!Opened, C!UseAccount, C!GoTo, C!State
<1>7. CASE C!StartLogin
  <2>1. CASE ~C!Close
    BY <1>7, <2>1 DEF C!StartLogin, C!Rpc, C!GoTo, C!Replies
  <2>2. CASE C!Close
    <3>1. server' = 0 /\ started' = started /\ up' \subseteq up
      BY <2>2, CloseKeeps
    <3>2. lock' \in {lock, None} /\ generation' = generation
      BY <1>7 DEF C!StartLogin
    <3>3. account' \in {"out", "pending", "in"} /\ codexFaults' \in 0..MaxCodexFaults
      BY <1>7 DEF C!StartLogin, C!Rpc
    <3> QED
      BY <3>1, <3>2, <3>3
  <2> QED
    BY <2>1, <2>2
<1>8. CASE C!OpenBrowser
  <2>1. CASE ~C!Close
    BY <1>8, <2>1 DEF C!OpenBrowser, C!Rpc, C!GoTo, C!Replies
  <2>2. CASE C!Close
    <3>1. server' = 0 /\ started' = started /\ up' \subseteq up
      BY <2>2, CloseKeeps
    <3>2. lock' \in {lock, None} /\ generation' = generation
      BY <1>8 DEF C!OpenBrowser
    <3>3. account' \in {"out", "pending", "in"} /\ codexFaults' \in 0..MaxCodexFaults
      BY <1>8 DEF C!OpenBrowser, C!Rpc
    <3> QED
      BY <3>1, <3>2, <3>3
  <2> QED
    BY <2>1, <2>2
<1>9. CASE C!Returned
  BY <1>9 DEF C!Returned, C!UseAccount, C!GoTo
<1>10. CASE C!SignedOut
  BY <1>10 DEF C!SignedOut, C!GoTo, C!Close
<1>11. CASE C!Die
  BY <1>11 DEF C!Die
<1>12. CASE C!FinishLogin
  BY <1>12 DEF C!FinishLogin
<1>13. CASE C!ReadAccount(C!Control)
  BY <1>13 DEF C!ReadAccount, C!Rpc, C!Replies
<1>14. ASSUME NEW g \in C!Gens, C!Begin(g) PROVE ProviderTypes'
  BY <1>14 DEF C!Begin, C!GoTo, C!Held
<1>15. ASSUME NEW g \in C!Gens, C!Abandon(g) PROVE ProviderTypes'
  BY <1>15 DEF C!Abandon
<1>16. ASSUME NEW g \in C!Gens, C!Collect(g) PROVE ProviderTypes'
  BY <1>16 DEF C!Collect
<1>17. ASSUME NEW g \in C!Gens, C!Lock(g) PROVE ProviderTypes'
  BY <1>17 DEF C!Lock, C!GoTo
<1>18. ASSUME NEW g \in C!Gens, C!Acquire(g) PROVE ProviderTypes'
  BY <1>18 DEF C!Acquire, C!GoTo, C!Cancelled
<1>19. ASSUME NEW g \in C!Gens, C!Busy(g) PROVE ProviderTypes'
  BY <1>19 DEF C!Busy, C!GoTo
<1>20. ASSUME NEW g \in C!Gens, C!ReadAccount(g) PROVE ProviderTypes'
  BY <1>20 DEF C!ReadAccount, C!Rpc, C!Replies
<1>21. ASSUME NEW g \in C!Gens, C!Authorised(g) PROVE ProviderTypes'
  BY <1>21 DEF C!Authorised, C!UseAccount, C!GoTo, C!State
<1>22. ASSUME NEW g \in C!Gens, C!Adopt(g) PROVE ProviderTypes'
  BY <1>22 DEF C!Adopt, C!GoTo
<1>23. ASSUME NEW g \in C!Gens, C!NewThread(g) PROVE ProviderTypes'
  BY <1>23 DEF C!NewThread, C!GoTo, C!Rpc, C!Fails, C!Replies
<1>24. ASSUME NEW g \in C!Gens, C!StartTurn(g) PROVE ProviderTypes'
  BY <1>24 DEF C!StartTurn, C!GoTo, C!Rpc, C!Fails, C!Cancelled, C!Replies
<1>25. ASSUME NEW g \in C!Gens, C!Hear(g) PROVE ProviderTypes'
  BY <1>25 DEF C!Hear, C!GoTo, C!Fails, C!Cancelled
<1>26. ASSUME NEW g \in C!Gens, C!Interrupt(g) PROVE ProviderTypes'
  BY <1>26 DEF C!Interrupt, C!GoTo, C!Rpc, C!Fails, C!Replies
<1>27. ASSUME NEW g \in C!Gens, C!Purge(g) PROVE ProviderTypes'
  BY <1>27 DEF C!Purge, C!GoTo
<1>28. ASSUME NEW g \in C!Gens, C!Purged(g) PROVE ProviderTypes'
  BY <1>28 DEF C!Purged, C!GoTo, C!Close
<1>29. ASSUME NEW g \in C!Gens, C!Leave(g) PROVE ProviderTypes'
  <2>1. up' \subseteq up /\ UNCHANGED <<server, started, lock, account>>
    BY <1>29 DEF C!Leave
  <2>2. generation' = None /\ codexFaults' \in 0..MaxCodexFaults
    BY <1>29 DEF C!Leave, C!Rpc
  <2> QED
    BY <2>1, <2>2
<1>30. ASSUME NEW g \in C!Gens, C!EndTurn(g) PROVE ProviderTypes'
  BY <1>30 DEF C!EndTurn
<1>31. CASE UNCHANGED codexVars
  BY <1>31 DEF codexVars
<1> QED
  BY <1>1, <1>2, <1>3, <1>4, <1>5, <1>6, <1>7, <1>8, <1>9, <1>10, <1>11, <1>12, <1>13,
       <1>14, <1>15, <1>16, <1>17, <1>18, <1>19, <1>20, <1>21, <1>22, <1>23, <1>24, <1>25,
       <1>26, <1>27, <1>28, <1>29, <1>30, <1>31 DEF C!Next, C!ControlStep, C!GenStep

\* ... and so do its switches, ...
LEMMA SwitchesStep ==
    Switches /\ (C!Next \/ UNCHANGED codexVars) => Switches'
<1> SUFFICES ASSUME Switches, C!Next \/ UNCHANGED codexVars
             PROVE  Switches'
  OBVIOUS
<1> USE CodexAssumed DEF C!CodexAssumption, Switches
<1>1. CASE C!SignIn
  BY <1>1 DEF C!SignIn, C!Call, C!GoTo
<1>2. CASE C!Status
  BY <1>2 DEF C!Status, C!Call, C!GoTo
<1>3. CASE C!SignOut
  BY <1>3 DEF C!SignOut, C!Call, C!GoTo, C!Rpc, C!Replies
<1>4. CASE C!Shutdown
  BY <1>4 DEF C!Shutdown, C!GoTo, C!Close
<1>5. CASE C!Health
  BY <1>5 DEF C!Health
<1>6. CASE C!Opened
  BY <1>6 DEF C!Opened, C!UseAccount, C!GoTo, C!State
<1>7. CASE C!StartLogin
  BY <1>7 DEF C!StartLogin, C!Rpc, C!GoTo, C!Close, C!Replies
<1>8. CASE C!OpenBrowser
  BY <1>8 DEF C!OpenBrowser, C!GoTo, C!Close
<1>9. CASE C!Returned
  BY <1>9 DEF C!Returned, C!UseAccount, C!GoTo
<1>10. CASE C!SignedOut
  BY <1>10 DEF C!SignedOut, C!GoTo, C!Close
<1>11. CASE C!Die
  BY <1>11 DEF C!Die
<1>12. CASE C!FinishLogin
  BY <1>12 DEF C!FinishLogin
<1>13. CASE C!ReadAccount(C!Control)
  BY <1>13 DEF C!ReadAccount, C!Rpc, C!Replies
<1>14. ASSUME NEW g \in C!Gens, C!Begin(g) PROVE Switches'
  BY <1>14 DEF C!Begin, C!GoTo, C!Held
<1>15. ASSUME NEW g \in C!Gens, C!Abandon(g) PROVE Switches'
  BY <1>15 DEF C!Abandon
<1>16. ASSUME NEW g \in C!Gens, C!Collect(g) PROVE Switches'
  BY <1>16 DEF C!Collect
<1>17. ASSUME NEW g \in C!Gens, C!Lock(g) PROVE Switches'
  BY <1>17 DEF C!Lock, C!GoTo
<1>18. ASSUME NEW g \in C!Gens, C!Acquire(g) PROVE Switches'
  BY <1>18 DEF C!Acquire, C!GoTo, C!Cancelled
<1>19. ASSUME NEW g \in C!Gens, C!Busy(g) PROVE Switches'
  BY <1>19 DEF C!Busy, C!GoTo
<1>20. ASSUME NEW g \in C!Gens, C!ReadAccount(g) PROVE Switches'
  BY <1>20 DEF C!ReadAccount, C!Rpc, C!Replies
<1>21. ASSUME NEW g \in C!Gens, C!Authorised(g) PROVE Switches'
  BY <1>21 DEF C!Authorised, C!UseAccount, C!GoTo, C!State
<1>22. ASSUME NEW g \in C!Gens, C!Adopt(g) PROVE Switches'
  BY <1>22 DEF C!Adopt, C!GoTo
<1>23. ASSUME NEW g \in C!Gens, C!NewThread(g) PROVE Switches'
  BY <1>23 DEF C!NewThread, C!GoTo, C!Rpc, C!Fails, C!Replies
<1>24. ASSUME NEW g \in C!Gens, C!StartTurn(g) PROVE Switches'
  BY <1>24 DEF C!StartTurn, C!GoTo, C!Rpc, C!Fails, C!Cancelled, C!Replies
<1>25. ASSUME NEW g \in C!Gens, C!Hear(g) PROVE Switches'
  BY <1>25 DEF C!Hear, C!GoTo, C!Fails, C!Cancelled
<1>26. ASSUME NEW g \in C!Gens, C!Interrupt(g) PROVE Switches'
  BY <1>26 DEF C!Interrupt, C!GoTo, C!Rpc, C!Fails, C!Replies
<1>27. ASSUME NEW g \in C!Gens, C!Purge(g) PROVE Switches'
  BY <1>27 DEF C!Purge, C!GoTo
<1>28. ASSUME NEW g \in C!Gens, C!Purged(g) PROVE Switches'
  BY <1>28 DEF C!Purged, C!GoTo, C!Close
<1>29. ASSUME NEW g \in C!Gens, C!Leave(g) PROVE Switches'
  BY <1>29 DEF C!Leave, C!GoTo, C!Rpc, C!Replies
<1>30. ASSUME NEW g \in C!Gens, C!EndTurn(g) PROVE Switches'
  BY <1>30 DEF C!EndTurn
<1>31. CASE UNCHANGED codexVars
  BY <1>31 DEF codexVars
<1> QED
  BY <1>1, <1>2, <1>3, <1>4, <1>5, <1>6, <1>7, <1>8, <1>9, <1>10, <1>11, <1>12, <1>13,
       <1>14, <1>15, <1>16, <1>17, <1>18, <1>19, <1>20, <1>21, <1>22, <1>23, <1>24, <1>25,
       <1>26, <1>27, <1>28, <1>29, <1>30, <1>31 DEF C!Next, C!ControlStep, C!GenStep

\* ... the threads, ...
LEMMA ThreadTypesStep ==
    ThreadTypes /\ (C!Next \/ UNCHANGED codexVars) => ThreadTypes'
<1> SUFFICES ASSUME ThreadTypes, C!Next \/ UNCHANGED codexVars
             PROVE  ThreadTypes'
  OBVIOUS
<1> USE CodexAssumed DEF C!CodexAssumption, ThreadTypes
<1>1. CASE C!SignIn
  BY <1>1 DEF C!SignIn, C!Call, C!GoTo
<1>2. CASE C!Status
  BY <1>2 DEF C!Status, C!Call, C!GoTo
<1>3. CASE C!SignOut
  BY <1>3 DEF C!SignOut, C!Call, C!GoTo, C!Rpc, C!Replies
<1>4. CASE C!Shutdown
  BY <1>4 DEF C!Shutdown, C!GoTo, C!Close
<1>5. CASE C!Health
  BY <1>5 DEF C!Health
<1>6. CASE C!Opened
  BY <1>6 DEF C!Opened, C!UseAccount, C!GoTo, C!State
<1>7. CASE C!StartLogin
  BY <1>7 DEF C!StartLogin, C!Rpc, C!GoTo, C!Close, C!Replies
<1>8. CASE C!OpenBrowser
  BY <1>8 DEF C!OpenBrowser, C!GoTo, C!Close
<1>9. CASE C!Returned
  BY <1>9 DEF C!Returned, C!UseAccount, C!GoTo
<1>10. CASE C!SignedOut
  BY <1>10 DEF C!SignedOut, C!GoTo, C!Close
<1>11. CASE C!Die
  BY <1>11 DEF C!Die
<1>12. CASE C!FinishLogin
  BY <1>12 DEF C!FinishLogin
<1>13. CASE C!ReadAccount(C!Control)
  BY <1>13 DEF C!ReadAccount, C!Rpc, C!Replies
<1>14. ASSUME NEW g \in C!Gens, C!Begin(g) PROVE ThreadTypes'
  BY <1>14 DEF C!Begin, C!GoTo, C!Held
<1>15. ASSUME NEW g \in C!Gens, C!Abandon(g) PROVE ThreadTypes'
  BY <1>15 DEF C!Abandon
<1>16. ASSUME NEW g \in C!Gens, C!Collect(g) PROVE ThreadTypes'
  BY <1>16 DEF C!Collect
<1>17. ASSUME NEW g \in C!Gens, C!Lock(g) PROVE ThreadTypes'
  BY <1>17 DEF C!Lock, C!GoTo
<1>18. ASSUME NEW g \in C!Gens, C!Acquire(g) PROVE ThreadTypes'
  BY <1>18 DEF C!Acquire, C!GoTo, C!Cancelled
<1>19. ASSUME NEW g \in C!Gens, C!Busy(g) PROVE ThreadTypes'
  BY <1>19 DEF C!Busy, C!GoTo
<1>20. ASSUME NEW g \in C!Gens, C!ReadAccount(g) PROVE ThreadTypes'
  BY <1>20 DEF C!ReadAccount, C!Rpc, C!Replies
<1>21. ASSUME NEW g \in C!Gens, C!Authorised(g) PROVE ThreadTypes'
  BY <1>21 DEF C!Authorised, C!UseAccount, C!GoTo, C!State
<1>22. ASSUME NEW g \in C!Gens, C!Adopt(g) PROVE ThreadTypes'
  BY <1>22 DEF C!Adopt, C!GoTo
<1>23. ASSUME NEW g \in C!Gens, C!NewThread(g) PROVE ThreadTypes'
  BY <1>23 DEF C!NewThread, C!GoTo, C!Rpc, C!Fails, C!Replies
<1>24. ASSUME NEW g \in C!Gens, C!StartTurn(g) PROVE ThreadTypes'
  BY <1>24 DEF C!StartTurn, C!GoTo, C!Rpc, C!Fails, C!Cancelled, C!Replies
<1>25. ASSUME NEW g \in C!Gens, C!Hear(g) PROVE ThreadTypes'
  BY <1>25 DEF C!Hear, C!GoTo, C!Fails, C!Cancelled
<1>26. ASSUME NEW g \in C!Gens, C!Interrupt(g) PROVE ThreadTypes'
  BY <1>26 DEF C!Interrupt, C!GoTo, C!Rpc, C!Fails, C!Replies
<1>27. ASSUME NEW g \in C!Gens, C!Purge(g) PROVE ThreadTypes'
  BY <1>27 DEF C!Purge, C!GoTo
<1>28. ASSUME NEW g \in C!Gens, C!Purged(g) PROVE ThreadTypes'
  BY <1>28 DEF C!Purged, C!GoTo, C!Close
<1>29. ASSUME NEW g \in C!Gens, C!Leave(g) PROVE ThreadTypes'
  BY <1>29 DEF C!Leave, C!GoTo, C!Rpc, C!Replies
<1>30. ASSUME NEW g \in C!Gens, C!EndTurn(g) PROVE ThreadTypes'
  BY <1>30 DEF C!EndTurn
<1>31. CASE UNCHANGED codexVars
  BY <1>31 DEF codexVars
<1> QED
  BY <1>1, <1>2, <1>3, <1>4, <1>5, <1>6, <1>7, <1>8, <1>9, <1>10, <1>11, <1>12, <1>13,
       <1>14, <1>15, <1>16, <1>17, <1>18, <1>19, <1>20, <1>21, <1>22, <1>23, <1>24, <1>25,
       <1>26, <1>27, <1>28, <1>29, <1>30, <1>31 DEF C!Next, C!ControlStep, C!GenStep

\* ... what they have in hand, ...
LEMMA FlagTypesStep ==
    ProviderTypes /\ FlagTypes /\ (C!Next \/ UNCHANGED codexVars) => FlagTypes'
<1> SUFFICES ASSUME ProviderTypes, FlagTypes, C!Next \/ UNCHANGED codexVars
             PROVE  FlagTypes'
  OBVIOUS
<1> USE CodexAssumed DEF C!CodexAssumption, FlagTypes, ProviderTypes
<1>1. CASE C!SignIn
  BY <1>1 DEF C!SignIn, C!Call, C!GoTo
<1>2. CASE C!Status
  BY <1>2 DEF C!Status, C!Call, C!GoTo
<1>3. CASE C!SignOut
  BY <1>3 DEF C!SignOut, C!Call, C!GoTo, C!Rpc, C!Replies
<1>4. CASE C!Shutdown
  BY <1>4 DEF C!Shutdown, C!GoTo, C!Close
<1>5. CASE C!Health
  BY <1>5 DEF C!Health
<1>6. CASE C!Opened
  BY <1>6 DEF C!Opened, C!UseAccount, C!GoTo, C!State
<1>7. CASE C!StartLogin
  BY <1>7 DEF C!StartLogin, C!Rpc, C!GoTo, C!Close, C!Replies
<1>8. CASE C!OpenBrowser
  BY <1>8 DEF C!OpenBrowser, C!GoTo, C!Close
<1>9. CASE C!Returned
  BY <1>9 DEF C!Returned, C!UseAccount, C!GoTo
<1>10. CASE C!SignedOut
  BY <1>10 DEF C!SignedOut, C!GoTo, C!Close
<1>11. CASE C!Die
  BY <1>11 DEF C!Die
<1>12. CASE C!FinishLogin
  BY <1>12 DEF C!FinishLogin
<1>13. CASE C!ReadAccount(C!Control)
  BY <1>13 DEF C!ReadAccount, C!Rpc, C!Replies
<1>14. ASSUME NEW g \in C!Gens, C!Begin(g) PROVE FlagTypes'
  BY <1>14 DEF C!Begin, C!GoTo, C!Held
<1>15. ASSUME NEW g \in C!Gens, C!Abandon(g) PROVE FlagTypes'
  BY <1>15 DEF C!Abandon
<1>16. ASSUME NEW g \in C!Gens, C!Collect(g) PROVE FlagTypes'
  BY <1>16 DEF C!Collect
<1>17. ASSUME NEW g \in C!Gens, C!Lock(g) PROVE FlagTypes'
  BY <1>17 DEF C!Lock, C!GoTo
<1>18. ASSUME NEW g \in C!Gens, C!Acquire(g) PROVE FlagTypes'
  BY <1>18 DEF C!Acquire, C!GoTo, C!Cancelled
<1>19. ASSUME NEW g \in C!Gens, C!Busy(g) PROVE FlagTypes'
  BY <1>19 DEF C!Busy, C!GoTo
<1>20. ASSUME NEW g \in C!Gens, C!ReadAccount(g) PROVE FlagTypes'
  BY <1>20 DEF C!ReadAccount, C!Rpc, C!Replies
<1>21. ASSUME NEW g \in C!Gens, C!Authorised(g) PROVE FlagTypes'
  BY <1>21 DEF C!Authorised, C!UseAccount, C!GoTo, C!State
<1>22. ASSUME NEW g \in C!Gens, C!Adopt(g) PROVE FlagTypes'
  BY <1>22 DEF C!Adopt, C!GoTo
<1>23. ASSUME NEW g \in C!Gens, C!NewThread(g) PROVE FlagTypes'
  BY <1>23 DEF C!NewThread, C!GoTo, C!Rpc, C!Fails, C!Replies
<1>24. ASSUME NEW g \in C!Gens, C!StartTurn(g) PROVE FlagTypes'
  BY <1>24 DEF C!StartTurn, C!GoTo, C!Rpc, C!Fails, C!Cancelled, C!Replies
<1>25. ASSUME NEW g \in C!Gens, C!Hear(g) PROVE FlagTypes'
  BY <1>25 DEF C!Hear, C!GoTo, C!Fails, C!Cancelled
<1>26. ASSUME NEW g \in C!Gens, C!Interrupt(g) PROVE FlagTypes'
  BY <1>26 DEF C!Interrupt, C!GoTo, C!Rpc, C!Fails, C!Replies
<1>27. ASSUME NEW g \in C!Gens, C!Purge(g) PROVE FlagTypes'
  BY <1>27 DEF C!Purge, C!GoTo
<1>28. ASSUME NEW g \in C!Gens, C!Purged(g) PROVE FlagTypes'
  BY <1>28 DEF C!Purged, C!GoTo, C!Close
<1>29. ASSUME NEW g \in C!Gens, C!Leave(g) PROVE FlagTypes'
  BY <1>29 DEF C!Leave, C!GoTo, C!Rpc, C!Replies
<1>30. ASSUME NEW g \in C!Gens, C!EndTurn(g) PROVE FlagTypes'
  BY <1>30 DEF C!EndTurn
<1>31. CASE UNCHANGED codexVars
  BY <1>31 DEF codexVars
<1> QED
  BY <1>1, <1>2, <1>3, <1>4, <1>5, <1>6, <1>7, <1>8, <1>9, <1>10, <1>11, <1>12, <1>13,
       <1>14, <1>15, <1>16, <1>17, <1>18, <1>19, <1>20, <1>21, <1>22, <1>23, <1>24, <1>25,
       <1>26, <1>27, <1>28, <1>29, <1>30, <1>31 DEF C!Next, C!ControlStep, C!GenStep

\* ... and the turns, where what a runtime is told refers to one that was started.
LEMMA TurnTypesStep ==
    ProviderTypes /\ TurnTypes /\ (C!Next \/ UNCHANGED codexVars) => TurnTypes'
<1> SUFFICES ASSUME ProviderTypes, TurnTypes, C!Next \/ UNCHANGED codexVars
             PROVE  TurnTypes'
  OBVIOUS
<1> USE CodexAssumed DEF C!CodexAssumption, TurnTypes, ProviderTypes
<1>1. CASE C!SignIn
  BY <1>1 DEF C!SignIn, C!Call, C!GoTo
<1>2. CASE C!Status
  BY <1>2 DEF C!Status, C!Call, C!GoTo
<1>3. CASE C!SignOut
  BY <1>3 DEF C!SignOut, C!Call, C!GoTo, C!Rpc, C!Replies
<1>4. CASE C!Shutdown
  BY <1>4 DEF C!Shutdown, C!GoTo, C!Close
<1>5. CASE C!Health
  BY <1>5 DEF C!Health
<1>6. CASE C!Opened
  BY <1>6 DEF C!Opened, C!UseAccount, C!GoTo, C!State
<1>7. CASE C!StartLogin
  <2>1. CASE ~C!Close
    BY <1>7, <2>1 DEF C!StartLogin, C!Rpc, C!GoTo, C!Replies
  <2>2. CASE C!Close
    BY <1>7, <2>2, CloseKeeps DEF C!StartLogin, C!Rpc, C!GoTo, C!Replies
  <2> QED
    BY <2>1, <2>2
<1>8. CASE C!OpenBrowser
  <2>1. CASE ~C!Close
    BY <1>8, <2>1 DEF C!OpenBrowser, C!GoTo
  <2>2. CASE C!Close
    BY <1>8, <2>2, CloseKeeps DEF C!OpenBrowser, C!GoTo
  <2> QED
    BY <2>1, <2>2
<1>9. CASE C!Returned
  BY <1>9 DEF C!Returned, C!UseAccount, C!GoTo
<1>10. CASE C!SignedOut
  BY <1>10 DEF C!SignedOut, C!GoTo, C!Close
<1>11. CASE C!Die
  BY <1>11 DEF C!Die
<1>12. CASE C!FinishLogin
  BY <1>12 DEF C!FinishLogin
<1>13. CASE C!ReadAccount(C!Control)
  BY <1>13 DEF C!ReadAccount, C!Rpc, C!Replies
<1>14. ASSUME NEW g \in C!Gens, C!Begin(g) PROVE TurnTypes'
  BY <1>14 DEF C!Begin, C!GoTo, C!Held
<1>15. ASSUME NEW g \in C!Gens, C!Abandon(g) PROVE TurnTypes'
  BY <1>15 DEF C!Abandon
<1>16. ASSUME NEW g \in C!Gens, C!Collect(g) PROVE TurnTypes'
  BY <1>16 DEF C!Collect
<1>17. ASSUME NEW g \in C!Gens, C!Lock(g) PROVE TurnTypes'
  BY <1>17 DEF C!Lock, C!GoTo
<1>18. ASSUME NEW g \in C!Gens, C!Acquire(g) PROVE TurnTypes'
  BY <1>18 DEF C!Acquire, C!GoTo, C!Cancelled
<1>19. ASSUME NEW g \in C!Gens, C!Busy(g) PROVE TurnTypes'
  BY <1>19 DEF C!Busy, C!GoTo
<1>20. ASSUME NEW g \in C!Gens, C!ReadAccount(g) PROVE TurnTypes'
  BY <1>20 DEF C!ReadAccount, C!Rpc, C!Replies
<1>21. ASSUME NEW g \in C!Gens, C!Authorised(g) PROVE TurnTypes'
  BY <1>21 DEF C!Authorised, C!UseAccount, C!GoTo, C!State
<1>22. ASSUME NEW g \in C!Gens, C!Adopt(g) PROVE TurnTypes'
  BY <1>22 DEF C!Adopt, C!GoTo
<1>23. ASSUME NEW g \in C!Gens, C!NewThread(g) PROVE TurnTypes'
  <2>1. threads' = threads \/ (threads' = threads \cup {g} /\ on[g] # 0)
    BY <1>23 DEF C!NewThread, C!Rpc, C!Outcomes
  <2>2. UNCHANGED <<on, turn, queue, answer, unanswered, started, closed>>
    BY <1>23 DEF C!NewThread
  <2> QED
    BY <2>1, <2>2
<1>24. ASSUME NEW g \in C!Gens, C!StartTurn(g) PROVE TurnTypes'
  BY <1>24 DEF C!StartTurn, C!GoTo, C!Rpc, C!Fails, C!Cancelled, C!Replies
<1>25. ASSUME NEW g \in C!Gens, C!Hear(g) PROVE TurnTypes'
  <2>1. UNCHANGED <<on, turn, unanswered, threads, started, closed>>
    BY <1>25 DEF C!Hear
  <2>2. PICK e \in queue[on[g]] : queue' = [queue EXCEPT ![on[g]] = @ \ {e}]
    BY <1>25 DEF C!Hear
  <2>3. queue' \in [C!Runtimes -> SUBSET [of : C!Gens, what : {"done", "tool"}]]
    BY <2>2
  <2>4. answer' \in [C!Gens -> C!Gens \cup {None}]
    BY <1>25 DEF C!Hear
  <2> QED
    BY <2>1, <2>3, <2>4
<1>26. ASSUME NEW g \in C!Gens, C!Interrupt(g) PROVE TurnTypes'
  BY <1>26 DEF C!Interrupt, C!GoTo, C!Rpc, C!Fails, C!Replies
<1>27. ASSUME NEW g \in C!Gens, C!Purge(g) PROVE TurnTypes'
  BY <1>27 DEF C!Purge, C!GoTo
<1>28. ASSUME NEW g \in C!Gens, C!Purged(g) PROVE TurnTypes'
  BY <1>28 DEF C!Purged, C!GoTo, C!Close
<1>29. ASSUME NEW g \in C!Gens, C!Leave(g) PROVE TurnTypes'
  <2>1. UNCHANGED <<on, turn, queue, answer, unanswered, threads, started>>
    BY <1>29 DEF C!Leave
  <2>2. closed' = closed \/ (closed' = closed \cup {on[g]} /\ g \in threads)
    BY <1>29 DEF C!Leave
  <2>3. closed' \subseteq 1..started
    <3>1. g \in threads => on[g] \in 1..started
      OBVIOUS
    <3> QED
      BY <2>2, <3>1
  <2> QED
    BY <2>1, <2>3
<1>30. ASSUME NEW g \in C!Gens, C!EndTurn(g) PROVE TurnTypes'
  <2>1. UNCHANGED <<on, answer, unanswered, threads, started, closed>>
    BY <1>30 DEF C!EndTurn
  <2>2. PICK w \in {"done", "tool"} : queue' = [queue EXCEPT ![on[g]] = @ \cup {[of |-> g, what |-> w]}]
    BY <1>30 DEF C!EndTurn
  <2>3. queue' \in [C!Runtimes -> SUBSET [of : C!Gens, what : {"done", "tool"}]]
    <3>1. [of |-> g, what |-> w] \in [of : C!Gens, what : {"done", "tool"}]
      BY <2>2
    <3> QED
      BY <2>2, <3>1
  <2>4. turn' \in [C!Gens -> {"none", "running", "told", "over"}]
    BY <1>30 DEF C!EndTurn
  <2> QED
    BY <2>1, <2>3, <2>4
<1>31. CASE UNCHANGED codexVars
  BY <1>31 DEF codexVars
<1> QED
  BY <1>1, <1>2, <1>3, <1>4, <1>5, <1>6, <1>7, <1>8, <1>9, <1>10, <1>11, <1>12, <1>13,
       <1>14, <1>15, <1>16, <1>17, <1>18, <1>19, <1>20, <1>21, <1>22, <1>23, <1>24, <1>25,
       <1>26, <1>27, <1>28, <1>29, <1>30, <1>31 DEF C!Next, C!ControlStep, C!GenStep
\* At most the provider's runtime is alive after a step.
LEMMA RuntimeStep ==
    ProviderTypes /\ OneRuntime /\ (C!Next \/ UNCHANGED codexVars) => OneRuntime'
<1> SUFFICES ASSUME ProviderTypes, OneRuntime, C!Next \/ UNCHANGED codexVars
             PROVE  OneRuntime'
  OBVIOUS
<1> USE CodexAssumed DEF C!CodexAssumption, ProviderTypes, OneRuntime, C!OneRuntime
<1>1. CASE C!SignIn
  <2>1. CASE server # 0
    BY <1>1, <2>1 DEF C!SignIn
  <2>2. CASE server = 0
    <3>1. up = {} /\ up' = up \cup {server'}
      BY <1>1, <2>2 DEF C!SignIn
    <3> QED
      BY <3>1
  <2> QED
    BY <2>1, <2>2
<1>2. CASE C!Status
  BY <1>2 DEF C!Status, C!Call, C!GoTo
<1>3. CASE C!SignOut
  BY <1>3 DEF C!SignOut, C!Call, C!GoTo, C!Rpc, C!Replies
<1>4. CASE C!Shutdown
  BY <1>4 DEF C!Shutdown, C!GoTo, C!Close
<1>5. CASE C!Health
  BY <1>5 DEF C!Health
<1>6. CASE C!Opened
  BY <1>6 DEF C!Opened, C!UseAccount, C!GoTo, C!State
<1>7. CASE C!StartLogin
  BY <1>7 DEF C!StartLogin, C!Rpc, C!GoTo, C!Close, C!Replies
<1>8. CASE C!OpenBrowser
  BY <1>8 DEF C!OpenBrowser, C!GoTo, C!Close
<1>9. CASE C!Returned
  BY <1>9 DEF C!Returned, C!UseAccount, C!GoTo
<1>10. CASE C!SignedOut
  BY <1>10 DEF C!SignedOut, C!GoTo, C!Close
<1>11. CASE C!Die
  BY <1>11 DEF C!Die
<1>12. CASE C!FinishLogin
  BY <1>12 DEF C!FinishLogin
<1>13. CASE C!ReadAccount(C!Control)
  BY <1>13 DEF C!ReadAccount, C!Rpc, C!Replies
<1>14. ASSUME NEW g \in C!Gens, C!Begin(g) PROVE OneRuntime'
  BY <1>14 DEF C!Begin, C!GoTo, C!Held
<1>15. ASSUME NEW g \in C!Gens, C!Abandon(g) PROVE OneRuntime'
  BY <1>15 DEF C!Abandon
<1>16. ASSUME NEW g \in C!Gens, C!Collect(g) PROVE OneRuntime'
  BY <1>16 DEF C!Collect
<1>17. ASSUME NEW g \in C!Gens, C!Lock(g) PROVE OneRuntime'
  BY <1>17 DEF C!Lock, C!GoTo
<1>18. ASSUME NEW g \in C!Gens, C!Acquire(g) PROVE OneRuntime'
  BY <1>18 DEF C!Acquire, C!GoTo, C!Cancelled
<1>19. ASSUME NEW g \in C!Gens, C!Busy(g) PROVE OneRuntime'
  BY <1>19 DEF C!Busy, C!GoTo
<1>20. ASSUME NEW g \in C!Gens, C!ReadAccount(g) PROVE OneRuntime'
  BY <1>20 DEF C!ReadAccount, C!Rpc, C!Replies
<1>21. ASSUME NEW g \in C!Gens, C!Authorised(g) PROVE OneRuntime'
  BY <1>21 DEF C!Authorised, C!UseAccount, C!GoTo, C!State
<1>22. ASSUME NEW g \in C!Gens, C!Adopt(g) PROVE OneRuntime'
  BY <1>22 DEF C!Adopt, C!GoTo
<1>23. ASSUME NEW g \in C!Gens, C!NewThread(g) PROVE OneRuntime'
  BY <1>23 DEF C!NewThread, C!GoTo, C!Rpc, C!Fails, C!Replies
<1>24. ASSUME NEW g \in C!Gens, C!StartTurn(g) PROVE OneRuntime'
  BY <1>24 DEF C!StartTurn, C!GoTo, C!Rpc, C!Fails, C!Cancelled, C!Replies
<1>25. ASSUME NEW g \in C!Gens, C!Hear(g) PROVE OneRuntime'
  BY <1>25 DEF C!Hear, C!GoTo, C!Fails, C!Cancelled
<1>26. ASSUME NEW g \in C!Gens, C!Interrupt(g) PROVE OneRuntime'
  BY <1>26 DEF C!Interrupt, C!GoTo, C!Rpc, C!Fails, C!Replies
<1>27. ASSUME NEW g \in C!Gens, C!Purge(g) PROVE OneRuntime'
  BY <1>27 DEF C!Purge, C!GoTo
<1>28. ASSUME NEW g \in C!Gens, C!Purged(g) PROVE OneRuntime'
  BY <1>28 DEF C!Purged, C!GoTo, C!Close
<1>29. ASSUME NEW g \in C!Gens, C!Leave(g) PROVE OneRuntime'
  BY <1>29 DEF C!Leave, C!GoTo, C!Rpc, C!Replies
<1>30. ASSUME NEW g \in C!Gens, C!EndTurn(g) PROVE OneRuntime'
  BY <1>30 DEF C!EndTurn
<1>31. CASE UNCHANGED codexVars
  BY <1>31 DEF codexVars
<1> QED
  BY <1>1, <1>2, <1>3, <1>4, <1>5, <1>6, <1>7, <1>8, <1>9, <1>10, <1>11, <1>12, <1>13,
       <1>14, <1>15, <1>16, <1>17, <1>18, <1>19, <1>20, <1>21, <1>22, <1>23, <1>24, <1>25,
       <1>26, <1>27, <1>28, <1>29, <1>30, <1>31 DEF C!Next, C!ControlStep, C!GenStep

\* Starting a turn: it was not begun before, and a generation that does not listen to
\* the turn that runs knows that the start was not answered.
LEMMA TurnStarts ==
    ASSUME TurnTypes, ThreadTypes, NEW g \in C!Gens, TurnInPlace(g), C!StartTurn(g)
    PROVE  /\ turn[g] = "none" /\ unanswered \subseteq unanswered'
           /\ \E n \in {"none", "running"}, p \in {"turn", "leaving", "purging"} :
                 /\ turn' = [turn EXCEPT ![g] = n] /\ pc' = [pc EXCEPT ![g] = p]
                 /\ n = "running" => p = "turn" \/ g \in unanswered'
           /\ UNCHANGED <<queue, answer, on, up>>
<1> USE DEF TurnTypes, ThreadTypes, TurnInPlace
<1>1. turn[g] = "none" /\ pc[g] = "ready"
  BY DEF C!StartTurn
<1>2. unanswered \subseteq unanswered' /\ UNCHANGED <<queue, answer, on, up>>
  BY DEF C!StartTurn
<1>3. CASE turn' = turn
  <2>1. turn' = [turn EXCEPT ![g] = "none"]
    BY <1>1, <1>3
  <2>2. \E p \in {"turn", "leaving", "purging"} : pc' = [pc EXCEPT ![g] = p]
    BY <1>1, <1>3 DEF C!StartTurn, C!Fails, C!GoTo
  <2> QED
    BY <1>1, <1>2, <2>1, <2>2
<1>4. CASE ~C!Cancelled(g) /\ C!Rpc(on[g], "ok") /\ turn' = [turn EXCEPT ![g] = "running"]
           /\ C!GoTo(g, "turn")
  BY <1>1, <1>2, <1>4 DEF C!GoTo
<1>5. CASE /\ unanswered' = unanswered \cup {g}
           /\ \E n \in {"none", "running"} : turn' = [turn EXCEPT ![g] = n]
           /\ \E p \in {"leaving", "purging"} : pc' = [pc EXCEPT ![g] = p]
  BY <1>1, <1>2, <1>5
<1>6. turn' = turn \/ <1>4!1 \/ <1>5!1
  BY DEF C!StartTurn, C!Fails, C!GoTo
<1> QED
  BY <1>3, <1>4, <1>5, <1>6

\* Hearing a message: it is taken out, and only one of the generation's own turn is its
\* answer or the end of its listening.
LEMMA MessageHeard ==
    ASSUME ProviderTypes, TurnTypes, ThreadTypes, NEW g \in C!Gens, C!Hear(g)
    PROVE  /\ on[g] \in C!Runtimes
           /\ \E e \in queue[on[g]], p \in {"turn", "leaving", "purging"} :
                 /\ queue' = [queue EXCEPT ![on[g]] = @ \ {e}] /\ pc' = [pc EXCEPT ![g] = p]
                 /\ answer' = answer \/ (e.of = g /\ answer' = [answer EXCEPT ![g] = g])
                 /\ p # "turn" => e.of = g
           /\ UNCHANGED <<turn, on, up, unanswered>>
<1> USE DEF ProviderTypes, TurnTypes, ThreadTypes
<1>1. on[g] \in C!Runtimes /\ pc[g] = "turn"
  BY CodexAssumed DEF C!Hear, C!CodexAssumption
<1>2. UNCHANGED <<turn, on, up, unanswered>>
  BY DEF C!Hear
<1>3. PICK e \in queue[on[g]] :
          /\ queue' = [queue EXCEPT ![on[g]] = @ \ {e}]
          /\ \/ e.of # g /\ UNCHANGED <<pc, answer>>
             \/ e.of = g /\ C!Fails(g, "isolation") /\ UNCHANGED answer
             \/ e.of = g /\ C!GoTo(g, "leaving") /\ answer' = [answer EXCEPT ![g] = e.of]
             \/ e.of = g /\ C!GoTo(g, "leaving") /\ UNCHANGED answer
  BY DEF C!Hear
<1>4. CASE e.of # g
  <2>1. pc' = [pc EXCEPT ![g] = "turn"] /\ answer' = answer
    BY <1>1, <1>3, <1>4
  <2> QED
    BY <1>1, <1>2, <1>3, <2>1
<1>5. CASE e.of = g
  <2>1. \E p \in {"leaving", "purging"} : pc' = [pc EXCEPT ![g] = p]
    BY <1>3, <1>5 DEF C!Fails, C!GoTo
  <2>2. answer' = answer \/ answer' = [answer EXCEPT ![g] = g]
    BY <1>3, <1>5
  <2> QED
    BY <1>1, <1>2, <1>3, <1>5, <2>1, <2>2
<1> QED
  BY <1>4, <1>5

\* What is queued stays said of turns that are over.
LEMMA QueueStep ==
    TurnTypes /\ ThreadTypes /\ QueueTrue /\ TurnsInPlace /\ (C!Next \/ UNCHANGED codexVars)
        => QueueTrue'
<1> SUFFICES ASSUME TurnTypes, ThreadTypes, QueueTrue, TurnsInPlace, C!Next \/ UNCHANGED codexVars
             PROVE  QueueTrue'
  OBVIOUS
<1> USE CodexAssumed DEF C!CodexAssumption, TurnTypes, ThreadTypes, QueueTrue
<1>1. CASE C!SignIn
  BY <1>1 DEF C!SignIn, C!Call, C!GoTo
<1>2. CASE C!Status
  BY <1>2 DEF C!Status, C!Call, C!GoTo
<1>3. CASE C!SignOut
  BY <1>3 DEF C!SignOut, C!Call, C!GoTo, C!Rpc, C!Replies
<1>4. CASE C!Shutdown
  BY <1>4 DEF C!Shutdown, C!GoTo, C!Close
<1>5. CASE C!Health
  BY <1>5 DEF C!Health
<1>6. CASE C!Opened
  BY <1>6 DEF C!Opened, C!UseAccount, C!GoTo, C!State
<1>7. CASE C!StartLogin
  BY <1>7 DEF C!StartLogin, C!Rpc, C!GoTo, C!Close, C!Replies
<1>8. CASE C!OpenBrowser
  BY <1>8 DEF C!OpenBrowser, C!GoTo, C!Close
<1>9. CASE C!Returned
  BY <1>9 DEF C!Returned, C!UseAccount, C!GoTo
<1>10. CASE C!SignedOut
  BY <1>10 DEF C!SignedOut, C!GoTo, C!Close
<1>11. CASE C!Die
  BY <1>11 DEF C!Die
<1>12. CASE C!FinishLogin
  BY <1>12 DEF C!FinishLogin
<1>13. CASE C!ReadAccount(C!Control)
  BY <1>13 DEF C!ReadAccount, C!Rpc, C!Replies
<1>14. ASSUME NEW g \in C!Gens, C!Begin(g) PROVE QueueTrue'
  BY <1>14 DEF C!Begin, C!GoTo, C!Held
<1>15. ASSUME NEW g \in C!Gens, C!Abandon(g) PROVE QueueTrue'
  BY <1>15 DEF C!Abandon
<1>16. ASSUME NEW g \in C!Gens, C!Collect(g) PROVE QueueTrue'
  BY <1>16 DEF C!Collect
<1>17. ASSUME NEW g \in C!Gens, C!Lock(g) PROVE QueueTrue'
  BY <1>17 DEF C!Lock, C!GoTo
<1>18. ASSUME NEW g \in C!Gens, C!Acquire(g) PROVE QueueTrue'
  BY <1>18 DEF C!Acquire, C!GoTo, C!Cancelled
<1>19. ASSUME NEW g \in C!Gens, C!Busy(g) PROVE QueueTrue'
  BY <1>19 DEF C!Busy, C!GoTo
<1>20. ASSUME NEW g \in C!Gens, C!ReadAccount(g) PROVE QueueTrue'
  BY <1>20 DEF C!ReadAccount, C!Rpc, C!Replies
<1>21. ASSUME NEW g \in C!Gens, C!Authorised(g) PROVE QueueTrue'
  BY <1>21 DEF C!Authorised, C!GoTo
<1>22. ASSUME NEW g \in C!Gens, C!Adopt(g) PROVE QueueTrue'
  BY <1>22 DEF C!Adopt, C!GoTo
<1>23. ASSUME NEW g \in C!Gens, C!NewThread(g) PROVE QueueTrue'
  BY <1>23 DEF C!NewThread, C!GoTo, C!Rpc, C!Fails, C!Replies
<1>24. ASSUME NEW g \in C!Gens, C!StartTurn(g) PROVE QueueTrue'
  BY <1>24, TurnStarts DEF TurnsInPlace
<1>25. ASSUME NEW g \in C!Gens, C!Hear(g) PROVE QueueTrue'
  BY <1>25 DEF C!Hear, C!GoTo, C!Fails, C!Cancelled
<1>26. ASSUME NEW g \in C!Gens, C!Interrupt(g) PROVE QueueTrue'
  BY <1>26 DEF C!Interrupt, C!GoTo, C!Rpc, C!Fails, C!Replies
<1>27. ASSUME NEW g \in C!Gens, C!Purge(g) PROVE QueueTrue'
  BY <1>27 DEF C!Purge, C!GoTo
<1>28. ASSUME NEW g \in C!Gens, C!Purged(g) PROVE QueueTrue'
  BY <1>28 DEF C!Purged, C!GoTo, C!Close
<1>29. ASSUME NEW g \in C!Gens, C!Leave(g) PROVE QueueTrue'
  BY <1>29 DEF C!Leave, C!GoTo, C!Rpc, C!Replies
<1>30. ASSUME NEW g \in C!Gens, C!EndTurn(g) PROVE QueueTrue'
  BY <1>30 DEF C!EndTurn
<1>31. CASE UNCHANGED codexVars
  BY <1>31 DEF codexVars
<1> QED
  BY <1>1, <1>2, <1>3, <1>4, <1>5, <1>6, <1>7, <1>8, <1>9, <1>10, <1>11, <1>12, <1>13,
       <1>14, <1>15, <1>16, <1>17, <1>18, <1>19, <1>20, <1>21, <1>22, <1>23, <1>24, <1>25,
       <1>26, <1>27, <1>28, <1>29, <1>30, <1>31 DEF C!Next, C!ControlStep, C!GenStep

\* An answer stays the one of the generation's own turn.
LEMMA AnswerStep ==
    ProviderTypes /\ TurnTypes /\ ThreadTypes /\ QueueTrue /\ AnswerIsOwn /\ TurnsInPlace
        /\ (C!Next \/ UNCHANGED codexVars) => AnswerIsOwn'
<1> SUFFICES ASSUME ProviderTypes, TurnTypes, ThreadTypes, QueueTrue, AnswerIsOwn, TurnsInPlace,
                    C!Next \/ UNCHANGED codexVars
             PROVE  AnswerIsOwn'
  OBVIOUS
<1> USE CodexAssumed DEF C!CodexAssumption, TurnTypes, ThreadTypes, QueueTrue, AnswerIsOwn,
   C!AnswerIsOwn
<1>1. CASE C!SignIn
  BY <1>1 DEF C!SignIn, C!Call, C!GoTo
<1>2. CASE C!Status
  BY <1>2 DEF C!Status, C!Call, C!GoTo
<1>3. CASE C!SignOut
  BY <1>3 DEF C!SignOut, C!Call, C!GoTo, C!Rpc, C!Replies
<1>4. CASE C!Shutdown
  BY <1>4 DEF C!Shutdown, C!GoTo, C!Close
<1>5. CASE C!Health
  BY <1>5 DEF C!Health
<1>6. CASE C!Opened
  BY <1>6 DEF C!Opened, C!UseAccount, C!GoTo, C!State
<1>7. CASE C!StartLogin
  BY <1>7 DEF C!StartLogin, C!Rpc, C!GoTo, C!Close, C!Replies
<1>8. CASE C!OpenBrowser
  BY <1>8 DEF C!OpenBrowser, C!GoTo, C!Close
<1>9. CASE C!Returned
  BY <1>9 DEF C!Returned, C!UseAccount, C!GoTo
<1>10. CASE C!SignedOut
  BY <1>10 DEF C!SignedOut, C!GoTo, C!Close
<1>11. CASE C!Die
  BY <1>11 DEF C!Die
<1>12. CASE C!FinishLogin
  BY <1>12 DEF C!FinishLogin
<1>13. CASE C!ReadAccount(C!Control)
  BY <1>13 DEF C!ReadAccount, C!Rpc, C!Replies
<1>14. ASSUME NEW g \in C!Gens, C!Begin(g) PROVE AnswerIsOwn'
  BY <1>14 DEF C!Begin, C!GoTo, C!Held
<1>15. ASSUME NEW g \in C!Gens, C!Abandon(g) PROVE AnswerIsOwn'
  BY <1>15 DEF C!Abandon
<1>16. ASSUME NEW g \in C!Gens, C!Collect(g) PROVE AnswerIsOwn'
  BY <1>16 DEF C!Collect
<1>17. ASSUME NEW g \in C!Gens, C!Lock(g) PROVE AnswerIsOwn'
  BY <1>17 DEF C!Lock, C!GoTo
<1>18. ASSUME NEW g \in C!Gens, C!Acquire(g) PROVE AnswerIsOwn'
  BY <1>18 DEF C!Acquire, C!GoTo, C!Cancelled
<1>19. ASSUME NEW g \in C!Gens, C!Busy(g) PROVE AnswerIsOwn'
  BY <1>19 DEF C!Busy, C!GoTo
<1>20. ASSUME NEW g \in C!Gens, C!ReadAccount(g) PROVE AnswerIsOwn'
  BY <1>20 DEF C!ReadAccount, C!Rpc, C!Replies
<1>21. ASSUME NEW g \in C!Gens, C!Authorised(g) PROVE AnswerIsOwn'
  BY <1>21 DEF C!Authorised, C!UseAccount, C!GoTo, C!State
<1>22. ASSUME NEW g \in C!Gens, C!Adopt(g) PROVE AnswerIsOwn'
  BY <1>22 DEF C!Adopt, C!GoTo
<1>23. ASSUME NEW g \in C!Gens, C!NewThread(g) PROVE AnswerIsOwn'
  BY <1>23 DEF C!NewThread, C!GoTo, C!Rpc, C!Fails, C!Replies
<1>24. ASSUME NEW g \in C!Gens, C!StartTurn(g) PROVE AnswerIsOwn'
  <2>1. PICK n \in {"none", "running"}, p \in {"turn", "leaving", "purging"} :
                 /\ turn' = [turn EXCEPT ![g] = n] /\ pc' = [pc EXCEPT ![g] = p]
                 /\ n = "running" => p = "turn" \/ g \in unanswered'
    BY <1>24, TurnStarts DEF TurnsInPlace
  <2>2. turn[g] = "none" /\ unanswered \subseteq unanswered' /\ UNCHANGED <<queue, answer, on, up>>
    BY <1>24, TurnStarts DEF TurnsInPlace
  <2>3. ASSUME NEW h \in C!Gens PROVE (answer[h] # None => answer[h] = h /\ turn[h] = "over")'
    <3>1. CASE h = g
      BY <2>1, <2>2, <3>1
    <3>2. CASE h # g
      BY <2>1, <2>2, <3>2
    <3> QED
      BY <3>1, <3>2
  <2> QED
    BY <2>3
<1>25. ASSUME NEW g \in C!Gens, C!Hear(g) PROVE AnswerIsOwn'
  <2>1. PICK e \in queue[on[g]], p \in {"turn", "leaving", "purging"} :
                 /\ queue' = [queue EXCEPT ![on[g]] = @ \ {e}] /\ pc' = [pc EXCEPT ![g] = p]
                 /\ answer' = answer \/ (e.of = g /\ answer' = [answer EXCEPT ![g] = g])
                 /\ p # "turn" => e.of = g
    BY <1>25, MessageHeard
  <2>2. turn[e.of] = "over" /\ UNCHANGED <<turn, on, up, unanswered>>
    BY <1>25, <2>1, MessageHeard
  <2>3. ASSUME NEW h \in C!Gens PROVE (answer[h] # None => answer[h] = h /\ turn[h] = "over")'
    <3>1. CASE h = g
      BY <2>1, <2>2, <3>1
    <3>2. CASE h # g
      BY <2>1, <2>2, <3>2
    <3> QED
      BY <3>1, <3>2
  <2> QED
    BY <2>3
<1>26. ASSUME NEW g \in C!Gens, C!Interrupt(g) PROVE AnswerIsOwn'
  BY <1>26 DEF C!Interrupt, C!GoTo, C!Rpc, C!Fails, C!Replies
<1>27. ASSUME NEW g \in C!Gens, C!Purge(g) PROVE AnswerIsOwn'
  BY <1>27 DEF C!Purge, C!GoTo
<1>28. ASSUME NEW g \in C!Gens, C!Purged(g) PROVE AnswerIsOwn'
  BY <1>28 DEF C!Purged, C!GoTo, C!Close
<1>29. ASSUME NEW g \in C!Gens, C!Leave(g) PROVE AnswerIsOwn'
  BY <1>29 DEF C!Leave, C!GoTo, C!Rpc, C!Replies
<1>30. ASSUME NEW g \in C!Gens, C!EndTurn(g) PROVE AnswerIsOwn'
  BY <1>30 DEF C!EndTurn
<1>31. CASE UNCHANGED codexVars
  BY <1>31 DEF codexVars
<1> QED
  BY <1>1, <1>2, <1>3, <1>4, <1>5, <1>6, <1>7, <1>8, <1>9, <1>10, <1>11, <1>12, <1>13,
       <1>14, <1>15, <1>16, <1>17, <1>18, <1>19, <1>20, <1>21, <1>22, <1>23, <1>24, <1>25,
       <1>26, <1>27, <1>28, <1>29, <1>30, <1>31 DEF C!Next, C!ControlStep, C!GenStep

\* No step leaves a turn behind that runs.
LEMMA TurnsStep ==
    ProviderTypes /\ TurnTypes /\ ThreadTypes /\ QueueTrue /\ OneRuntime /\ TurnsInPlace
        /\ (C!Next \/ UNCHANGED codexVars) => TurnsInPlace'
<1> SUFFICES ASSUME ProviderTypes, TurnTypes, ThreadTypes, QueueTrue, OneRuntime, TurnsInPlace,
                    C!Next \/ UNCHANGED codexVars
             PROVE  TurnsInPlace'
  OBVIOUS
<1> USE CodexAssumed DEF C!CodexAssumption, ProviderTypes, TurnTypes, ThreadTypes, QueueTrue,
   TurnInPlace, TurnsInPlace, OneRuntime, C!OneRuntime
<1>1. CASE C!SignIn
  BY <1>1 DEF C!SignIn, C!Call, C!GoTo
<1>2. CASE C!Status
  BY <1>2 DEF C!Status, C!Call, C!GoTo
<1>3. CASE C!SignOut
  BY <1>3 DEF C!SignOut, C!Call, C!GoTo, C!Rpc, C!Replies
<1>4. CASE C!Shutdown
  BY <1>4 DEF C!Shutdown, C!GoTo, C!Close
<1>5. CASE C!Health
  BY <1>5 DEF C!Health
<1>6. CASE C!Opened
  BY <1>6 DEF C!Opened, C!UseAccount, C!GoTo, C!State
<1>7. CASE C!StartLogin
  BY <1>7 DEF C!StartLogin, C!Rpc, C!GoTo, C!Close, C!Replies
<1>8. CASE C!OpenBrowser
  BY <1>8 DEF C!OpenBrowser, C!GoTo, C!Close
<1>9. CASE C!Returned
  BY <1>9 DEF C!Returned, C!UseAccount, C!GoTo
<1>10. CASE C!SignedOut
  BY <1>10 DEF C!SignedOut, C!GoTo, C!Close
<1>11. CASE C!Die
  BY <1>11 DEF C!Die
<1>12. CASE C!FinishLogin
  BY <1>12 DEF C!FinishLogin
<1>13. CASE C!ReadAccount(C!Control)
  BY <1>13 DEF C!ReadAccount, C!Rpc, C!Replies
<1>14. ASSUME NEW g \in C!Gens, C!Begin(g) PROVE TurnsInPlace'
  BY <1>14 DEF C!Begin, C!GoTo, C!Held
<1>15. ASSUME NEW g \in C!Gens, C!Abandon(g) PROVE TurnsInPlace'
  BY <1>15 DEF C!Abandon
<1>16. ASSUME NEW g \in C!Gens, C!Collect(g) PROVE TurnsInPlace'
  BY <1>16 DEF C!Collect
<1>17. ASSUME NEW g \in C!Gens, C!Lock(g) PROVE TurnsInPlace'
  BY <1>17 DEF C!Lock, C!GoTo
<1>18. ASSUME NEW g \in C!Gens, C!Acquire(g) PROVE TurnsInPlace'
  BY <1>18 DEF C!Acquire, C!GoTo, C!Cancelled
<1>19. ASSUME NEW g \in C!Gens, C!Busy(g) PROVE TurnsInPlace'
  BY <1>19 DEF C!Busy, C!GoTo
<1>20. ASSUME NEW g \in C!Gens, C!ReadAccount(g) PROVE TurnsInPlace'
  BY <1>20 DEF C!ReadAccount, C!Rpc, C!Replies
<1>21. ASSUME NEW g \in C!Gens, C!Authorised(g) PROVE TurnsInPlace'
  BY <1>21 DEF C!Authorised, C!GoTo
<1>22. ASSUME NEW g \in C!Gens, C!Adopt(g) PROVE TurnsInPlace'
  BY <1>22 DEF C!Adopt, C!GoTo
<1>23. ASSUME NEW g \in C!Gens, C!NewThread(g) PROVE TurnsInPlace'
  BY <1>23 DEF C!NewThread, C!GoTo, C!Rpc, C!Fails, C!Replies
<1>24. ASSUME NEW g \in C!Gens, C!StartTurn(g) PROVE TurnsInPlace'
  <2>1. PICK n \in {"none", "running"}, p \in {"turn", "leaving", "purging"} :
                 /\ turn' = [turn EXCEPT ![g] = n] /\ pc' = [pc EXCEPT ![g] = p]
                 /\ n = "running" => p = "turn" \/ g \in unanswered'
    BY <1>24, TurnStarts DEF TurnsInPlace
  <2>2. turn[g] = "none" /\ unanswered \subseteq unanswered' /\ UNCHANGED <<queue, answer, on, up>>
    BY <1>24, TurnStarts DEF TurnsInPlace
  <2>3. ASSUME NEW h \in C!Gens PROVE TurnInPlace(h)'
    <3>1. CASE h = g
      BY <2>1, <2>2, <3>1
    <3>2. CASE h # g
      BY <2>1, <2>2, <3>2
    <3> QED
      BY <3>1, <3>2
  <2> QED
    BY <2>3
<1>25. ASSUME NEW g \in C!Gens, C!Hear(g) PROVE TurnsInPlace'
  <2>1. PICK e \in queue[on[g]], p \in {"turn", "leaving", "purging"} :
                 /\ queue' = [queue EXCEPT ![on[g]] = @ \ {e}] /\ pc' = [pc EXCEPT ![g] = p]
                 /\ answer' = answer \/ (e.of = g /\ answer' = [answer EXCEPT ![g] = g])
                 /\ p # "turn" => e.of = g
    BY <1>25, MessageHeard
  <2>2. turn[e.of] = "over" /\ UNCHANGED <<turn, on, up, unanswered>>
    BY <1>25, <2>1, MessageHeard
  <2>3. ASSUME NEW h \in C!Gens PROVE TurnInPlace(h)'
    <3>1. CASE h = g
      BY <2>1, <2>2, <3>1
    <3>2. CASE h # g
      BY <2>1, <2>2, <3>2
    <3> QED
      BY <3>1, <3>2
  <2> QED
    BY <2>3
<1>26. ASSUME NEW g \in C!Gens, C!Interrupt(g) PROVE TurnsInPlace'
  BY <1>26 DEF C!Interrupt, C!GoTo, C!Rpc, C!Fails, C!Replies
<1>27. ASSUME NEW g \in C!Gens, C!Purge(g) PROVE TurnsInPlace'
  BY <1>27 DEF C!Purge, C!GoTo
<1>28. ASSUME NEW g \in C!Gens, C!Purged(g) PROVE TurnsInPlace'
  BY <1>28 DEF C!Purged, C!GoTo, C!Close
<1>29. ASSUME NEW g \in C!Gens, C!Leave(g) PROVE TurnsInPlace'
  BY <1>29 DEF C!Leave, C!GoTo, C!Rpc, C!Replies
<1>30. ASSUME NEW g \in C!Gens, C!EndTurn(g) PROVE TurnsInPlace'
  BY <1>30 DEF C!EndTurn
<1>31. CASE UNCHANGED codexVars
  BY <1>31 DEF codexVars
<1> QED
  BY <1>1, <1>2, <1>3, <1>4, <1>5, <1>6, <1>7, <1>8, <1>9, <1>10, <1>11, <1>12, <1>13,
       <1>14, <1>15, <1>16, <1>17, <1>18, <1>19, <1>20, <1>21, <1>22, <1>23, <1>24, <1>25,
       <1>26, <1>27, <1>28, <1>29, <1>30, <1>31 DEF C!Next, C!ControlStep, C!GenStep

\* The control thread and the generations stay where they belong.
LEMMA PlacesStep ==
    ThreadTypes /\ ThreadsInPlace /\ (C!Next \/ UNCHANGED codexVars) => ThreadsInPlace'
<1> SUFFICES ASSUME ThreadTypes, ThreadsInPlace, C!Next \/ UNCHANGED codexVars
             PROVE  ThreadsInPlace'
  OBVIOUS
<1> USE CodexAssumed DEF C!CodexAssumption, ThreadTypes, ThreadsInPlace, Generating
<1>1. CASE C!SignIn
  BY <1>1 DEF C!SignIn, C!Call, C!GoTo
<1>2. CASE C!Status
  BY <1>2 DEF C!Status, C!Call, C!GoTo
<1>3. CASE C!SignOut
  BY <1>3 DEF C!SignOut, C!Call, C!GoTo, C!Rpc, C!Replies
<1>4. CASE C!Shutdown
  BY <1>4 DEF C!Shutdown, C!GoTo, C!Close
<1>5. CASE C!Health
  BY <1>5 DEF C!Health
<1>6. CASE C!Opened
  BY <1>6 DEF C!Opened, C!UseAccount, C!GoTo, C!State
<1>7. CASE C!StartLogin
  BY <1>7 DEF C!StartLogin, C!Rpc, C!GoTo, C!Close, C!Replies
<1>8. CASE C!OpenBrowser
  BY <1>8 DEF C!OpenBrowser, C!GoTo, C!Close
<1>9. CASE C!Returned
  BY <1>9 DEF C!Returned, C!UseAccount, C!GoTo
<1>10. CASE C!SignedOut
  BY <1>10 DEF C!SignedOut, C!GoTo, C!Close
<1>11. CASE C!Die
  BY <1>11 DEF C!Die
<1>12. CASE C!FinishLogin
  BY <1>12 DEF C!FinishLogin
<1>13. CASE C!ReadAccount(C!Control)
  BY <1>13 DEF C!ReadAccount, C!Rpc, C!Replies
<1>14. ASSUME NEW g \in C!Gens, C!Begin(g) PROVE ThreadsInPlace'
  BY <1>14 DEF C!Begin, C!GoTo, C!Held
<1>15. ASSUME NEW g \in C!Gens, C!Abandon(g) PROVE ThreadsInPlace'
  BY <1>15 DEF C!Abandon
<1>16. ASSUME NEW g \in C!Gens, C!Collect(g) PROVE ThreadsInPlace'
  BY <1>16 DEF C!Collect
<1>17. ASSUME NEW g \in C!Gens, C!Lock(g) PROVE ThreadsInPlace'
  BY <1>17 DEF C!Lock, C!GoTo
<1>18. ASSUME NEW g \in C!Gens, C!Acquire(g) PROVE ThreadsInPlace'
  BY <1>18 DEF C!Acquire, C!GoTo, C!Cancelled
<1>19. ASSUME NEW g \in C!Gens, C!Busy(g) PROVE ThreadsInPlace'
  BY <1>19 DEF C!Busy, C!GoTo
<1>20. ASSUME NEW g \in C!Gens, C!ReadAccount(g) PROVE ThreadsInPlace'
  BY <1>20 DEF C!ReadAccount, C!Rpc, C!Replies
<1>21. ASSUME NEW g \in C!Gens, C!Authorised(g) PROVE ThreadsInPlace'
  BY <1>21 DEF C!Authorised, C!UseAccount, C!GoTo, C!State
<1>22. ASSUME NEW g \in C!Gens, C!Adopt(g) PROVE ThreadsInPlace'
  BY <1>22 DEF C!Adopt, C!GoTo
<1>23. ASSUME NEW g \in C!Gens, C!NewThread(g) PROVE ThreadsInPlace'
  BY <1>23 DEF C!NewThread, C!GoTo, C!Rpc, C!Fails, C!Replies
<1>24. ASSUME NEW g \in C!Gens, C!StartTurn(g) PROVE ThreadsInPlace'
  BY <1>24 DEF C!StartTurn, C!GoTo, C!Rpc, C!Fails, C!Cancelled, C!Replies
<1>25. ASSUME NEW g \in C!Gens, C!Hear(g) PROVE ThreadsInPlace'
  BY <1>25 DEF C!Hear, C!GoTo, C!Fails, C!Cancelled
<1>26. ASSUME NEW g \in C!Gens, C!Interrupt(g) PROVE ThreadsInPlace'
  BY <1>26 DEF C!Interrupt, C!GoTo, C!Rpc, C!Fails, C!Replies
<1>27. ASSUME NEW g \in C!Gens, C!Purge(g) PROVE ThreadsInPlace'
  BY <1>27 DEF C!Purge, C!GoTo
<1>28. ASSUME NEW g \in C!Gens, C!Purged(g) PROVE ThreadsInPlace'
  BY <1>28 DEF C!Purged, C!GoTo, C!Close
<1>29. ASSUME NEW g \in C!Gens, C!Leave(g) PROVE ThreadsInPlace'
  BY <1>29 DEF C!Leave, C!GoTo, C!Rpc, C!Replies
<1>30. ASSUME NEW g \in C!Gens, C!EndTurn(g) PROVE ThreadsInPlace'
  BY <1>30 DEF C!EndTurn
<1>31. CASE UNCHANGED codexVars
  BY <1>31 DEF codexVars
<1> QED
  BY <1>1, <1>2, <1>3, <1>4, <1>5, <1>6, <1>7, <1>8, <1>9, <1>10, <1>11, <1>12, <1>13,
       <1>14, <1>15, <1>16, <1>17, <1>18, <1>19, <1>20, <1>21, <1>22, <1>23, <1>24, <1>25,
       <1>26, <1>27, <1>28, <1>29, <1>30, <1>31 DEF C!Next, C!ControlStep, C!GenStep

\* A thread that goes on to a step at which it has the locks that it has.
LEMMA LocksStay ==
    ASSUME ThreadTypes, LocksHeld, NEW t \in C!Threads, NEW p,
           pc' = [pc EXCEPT ![t] = p], lock' = lock, generation' = generation,
           pc[t] \in Locked <=> p \in Locked, pc[t] \in Generating <=> p \in Generating
    PROVE  LocksHeld'
<1>1. \A u \in C!Threads : pc'[u] = IF u = t THEN p ELSE pc[u]
  BY DEF ThreadTypes
<1> QED
  BY <1>1 DEF LocksHeld

\* A lock is taken by who needs it when nobody has it, and given back on every way out.
LEMMA LocksStep ==
    ThreadTypes /\ ThreadsInPlace /\ LocksHeld /\ (C!Next \/ UNCHANGED codexVars) => LocksHeld'
<1> SUFFICES ASSUME ThreadTypes, ThreadsInPlace, LocksHeld, C!Next \/ UNCHANGED codexVars
             PROVE  LocksHeld'
  OBVIOUS
<1> USE CodexAssumed DEF C!CodexAssumption, ThreadTypes, ThreadsInPlace, LocksHeld,
                          Generating, Locked
<1>1. CASE C!SignIn
  BY <1>1 DEF C!SignIn, C!Call, C!GoTo
<1>2. CASE C!Status
  BY <1>2 DEF C!Status, C!Call, C!GoTo
<1>3. CASE C!SignOut
  BY <1>3 DEF C!SignOut, C!Call, C!GoTo, C!Rpc, C!Replies
<1>4. CASE C!Shutdown
  BY <1>4 DEF C!Shutdown, C!GoTo, C!Close
<1>5. CASE C!Health
  BY <1>5 DEF C!Health
<1>6. CASE C!Opened
  <2>1. PICK p \in {"reading", "login"} :
           pc[C!Control] = "opening" /\ lock' = lock /\ generation' = generation
           /\ pc' = [pc EXCEPT ![C!Control] = p]
    BY <1>6 DEF C!Opened, C!GoTo
  <2> QED
    BY <2>1, LocksStay
<1>7. CASE C!StartLogin
  <2>1. /\ pc[C!Control] = "login" /\ generation' = generation
        /\ \/ pc' = [pc EXCEPT ![C!Control] = "idle"] /\ lock' = None
           \/ pc' = [pc EXCEPT ![C!Control] = "browser"] /\ lock' = lock
    BY <1>7 DEF C!StartLogin, C!GoTo
  <2>2. CASE pc' = [pc EXCEPT ![C!Control] = "idle"] /\ lock' = None
    BY <2>1, <2>2
  <2>3. CASE pc' = [pc EXCEPT ![C!Control] = "browser"] /\ lock' = lock
    BY <2>1, <2>3
  <2> QED
    BY <2>1, <2>2, <2>3
<1>8. CASE C!OpenBrowser
  <2>1. /\ pc[C!Control] = "browser" /\ generation' = generation
        /\ \/ pc' = [pc EXCEPT ![C!Control] = "idle"] /\ lock' = None
           \/ pc' = [pc EXCEPT ![C!Control] = "reading"] /\ lock' = lock
    BY <1>8 DEF C!OpenBrowser, C!GoTo
  <2>2. CASE pc' = [pc EXCEPT ![C!Control] = "idle"] /\ lock' = None
    BY <2>1, <2>2
  <2>3. CASE pc' = [pc EXCEPT ![C!Control] = "reading"] /\ lock' = lock
    BY <2>1, <2>3
  <2> QED
    BY <2>1, <2>2, <2>3
<1>9. CASE C!Returned
  BY <1>9 DEF C!Returned, C!UseAccount, C!GoTo
<1>10. CASE C!SignedOut
  BY <1>10 DEF C!SignedOut, C!GoTo, C!Close
<1>11. CASE C!Die
  BY <1>11 DEF C!Die
<1>12. CASE C!FinishLogin
  BY <1>12 DEF C!FinishLogin
<1>13. CASE C!ReadAccount(C!Control)
  <2>1. pc' = pc /\ lock' = lock /\ generation' = generation
    BY <1>13 DEF C!ReadAccount
  <2> QED
    BY <2>1
<1>14. ASSUME NEW g \in C!Gens, C!Begin(g) PROVE LocksHeld'
  BY <1>14 DEF C!Begin, C!GoTo, C!Held
<1>15. ASSUME NEW g \in C!Gens, C!Abandon(g) PROVE LocksHeld'
  BY <1>15 DEF C!Abandon
<1>16. ASSUME NEW g \in C!Gens, C!Collect(g) PROVE LocksHeld'
  BY <1>16 DEF C!Collect
<1>17. ASSUME NEW g \in C!Gens, C!Lock(g) PROVE LocksHeld'
  BY <1>17 DEF C!Lock, C!GoTo
<1>18. ASSUME NEW g \in C!Gens, C!Acquire(g) PROVE LocksHeld'
  BY <1>18 DEF C!Acquire, C!GoTo, C!Cancelled
<1>19. ASSUME NEW g \in C!Gens, C!Busy(g) PROVE LocksHeld'
  BY <1>19 DEF C!Busy, C!GoTo
<1>20. ASSUME NEW g \in C!Gens, C!ReadAccount(g) PROVE LocksHeld'
  <2>1. pc' = pc /\ lock' = lock /\ generation' = generation
    BY <1>20 DEF C!ReadAccount
  <2> QED
    BY <2>1
<1>21. ASSUME NEW g \in C!Gens, C!Authorised(g) PROVE LocksHeld'
  <2>1. PICK p \in {"adopt", "leaving"} :
           pc[g] = "auth" /\ lock' = None /\ generation' = generation
           /\ pc' = [pc EXCEPT ![g] = p]
    BY <1>21 DEF C!Authorised, C!GoTo
  <2>2. lock = g
    BY <2>1
  <2>3. \A u \in C!Threads : pc'[u] = IF u = g THEN p ELSE pc[u]
    BY <2>1
  <2> QED
    BY <2>1, <2>2, <2>3
<1>22. ASSUME NEW g \in C!Gens, C!Adopt(g) PROVE LocksHeld'
  <2>1. PICK p \in {"thread", "leaving"} :
           pc[g] = "adopt" /\ lock' = lock /\ generation' = generation
           /\ pc' = [pc EXCEPT ![g] = p]
    BY <1>22 DEF C!Adopt, C!GoTo
  <2> QED
    BY <2>1, LocksStay
<1>23. ASSUME NEW g \in C!Gens, C!NewThread(g) PROVE LocksHeld'
  <2>1. PICK p \in {"ready", "purging", "leaving"} :
           pc[g] = "thread" /\ lock' = lock /\ generation' = generation
           /\ pc' = [pc EXCEPT ![g] = p]
    BY <1>23 DEF C!NewThread, C!GoTo, C!Fails
  <2> QED
    BY <2>1, LocksStay
<1>24. ASSUME NEW g \in C!Gens, C!StartTurn(g) PROVE LocksHeld'
  <2>1. PICK p \in {"turn", "purging", "leaving"} :
           pc[g] = "ready" /\ lock' = lock /\ generation' = generation
           /\ pc' = [pc EXCEPT ![g] = p]
    BY <1>24 DEF C!StartTurn, C!GoTo, C!Fails
  <2> QED
    BY <2>1, LocksStay
<1>25. ASSUME NEW g \in C!Gens, C!Hear(g) PROVE LocksHeld'
  <2>1. /\ pc[g] = "turn" /\ lock' = lock /\ generation' = generation
        /\ \/ pc' = pc
           \/ \E p \in {"leaving", "purging"} : pc' = [pc EXCEPT ![g] = p]
    BY <1>25 DEF C!Hear, C!GoTo, C!Fails
  <2> QED
    BY <2>1
<1>26. ASSUME NEW g \in C!Gens, C!Interrupt(g) PROVE LocksHeld'
  <2>1. PICK p \in {"purging", "leaving"} :
           pc[g] = "turn" /\ lock' = lock /\ generation' = generation
           /\ pc' = [pc EXCEPT ![g] = p]
    BY <1>26 DEF C!Interrupt, C!GoTo, C!Fails
  <2> QED
    BY <2>1, LocksStay
<1>27. ASSUME NEW g \in C!Gens, C!Purge(g) PROVE LocksHeld'
  <2>1. PICK p \in {"purged"} :
           pc[g] = "purging" /\ lock' = lock /\ generation' = generation
           /\ pc' = [pc EXCEPT ![g] = p]
    BY <1>27 DEF C!Purge, C!GoTo
  <2> QED
    BY <2>1, LocksStay
<1>28. ASSUME NEW g \in C!Gens, C!Purged(g) PROVE LocksHeld'
  <2>1. PICK p \in {"leaving"} :
           pc[g] = "purged" /\ lock' = lock /\ generation' = generation
           /\ pc' = [pc EXCEPT ![g] = p]
    BY <1>28 DEF C!Purged, C!GoTo
  <2> QED
    BY <2>1, LocksStay
<1>29. ASSUME NEW g \in C!Gens, C!Leave(g) PROVE LocksHeld'
  BY <1>29 DEF C!Leave, C!GoTo, C!Rpc, C!Replies
<1>30. ASSUME NEW g \in C!Gens, C!EndTurn(g) PROVE LocksHeld'
  BY <1>30 DEF C!EndTurn
<1>31. CASE UNCHANGED codexVars
  BY <1>31 DEF codexVars
<1> QED
  BY <1>1, <1>2, <1>3, <1>4, <1>5, <1>6, <1>7, <1>8, <1>9, <1>10, <1>11, <1>12, <1>13,
       <1>14, <1>15, <1>16, <1>17, <1>18, <1>19, <1>20, <1>21, <1>22, <1>23, <1>24, <1>25,
       <1>26, <1>27, <1>28, <1>29, <1>30, <1>31 DEF C!Next, C!ControlStep, C!GenStep

\* Nothing is started at first.
LEMMA CodexInit == C!Init => CodexInv
<1> SUFFICES ASSUME C!Init PROVE CodexInv
  OBVIOUS
<1> USE CodexAssumed DEF C!CodexAssumption, C!Init
<1>1. ProviderTypes
  BY DEF ProviderTypes
<1>5. Switches
  BY DEF Switches
<1>2. ThreadTypes /\ FlagTypes
  BY DEF ThreadTypes, FlagTypes
<1>3. TurnTypes
  BY DEF TurnTypes
<1>6. ThreadsInPlace /\ LocksHeld
  BY DEF ThreadsInPlace, LocksHeld, Locked, Generating
<1>4. OneRuntime /\ AnswerIsOwn /\ QueueTrue /\ TurnsInPlace
  BY DEF OneRuntime, C!OneRuntime, AnswerIsOwn, C!AnswerIsOwn, QueueTrue, TurnsInPlace,
     TurnInPlace
<1> QED
  BY <1>1, <1>2, <1>3, <1>4, <1>5, <1>6 DEF CodexInv, CodexTypes

\* The invariant of the Codex provider holds in every behaviour.
LEMMA CodexInvariant == C!Spec => []CodexInv
<1>1. CodexInv /\ [C!Next]_(C!vars) => CodexInv'
  <2> SUFFICES ASSUME CodexInv, C!Next \/ UNCHANGED codexVars PROVE CodexInv'
    BY DEF C!vars, codexVars
  <2>1. (ProviderTypes /\ Switches /\ ThreadTypes /\ FlagTypes /\ TurnTypes)'
    BY ProviderTypesStep, SwitchesStep, ThreadTypesStep, FlagTypesStep, TurnTypesStep
    DEF CodexInv, CodexTypes
  <2>2. (OneRuntime /\ QueueTrue /\ AnswerIsOwn /\ TurnsInPlace)'
    BY RuntimeStep, QueueStep, AnswerStep, TurnsStep DEF CodexInv, CodexTypes
  <2>3. (ThreadsInPlace /\ LocksHeld)'
    BY PlacesStep, LocksStep DEF CodexInv, CodexTypes
  <2> QED
    BY <2>1, <2>2, <2>3 DEF CodexInv, CodexTypes
<1> QED
  BY <1>1, CodexInit, PTL DEF C!Spec

\* The Codex provider's variables keep their types.
THEOREM CodexTypesHold == C!Spec => []C!TypeOK
<1>1. CodexInv => C!TypeOK
  BY CodexAssumed DEF CodexInv, CodexTypes, ProviderTypes, Switches, ThreadTypes, FlagTypes,
       TurnTypes, C!TypeOK, C!CodexAssumption, C!Gens, C!Threads, C!Ids
<1> QED
  BY <1>1, CodexInvariant, PTL

\* The one runtime process that is alive is the one the provider knows, for any number of
\* generations and failures (codex.py:441-486, 570-591).
THEOREM OneRuntimeLives == C!Spec => []OneRuntime
<1>1. CodexInv => OneRuntime
  BY DEF CodexInv
<1> QED
  BY <1>1, CodexInvariant, PTL

\* A generation returns what its own turn said, whatever earlier generations left in the
\* queue of the runtime (codex.py:532-565).
THEOREM AnswersAreOwn == C!Spec => []AnswerIsOwn
<1>1. CodexInv => AnswerIsOwn
  BY DEF CodexInv
<1> QED
  BY <1>1, CodexInvariant, PTL

\* No turn runs on behind the generation that is leaving it, unless its start was not
\* answered (codex.py:515-569).
THEOREM NoTurnLeftRunning == C!Spec => []TurnsStop
<1>1. CodexInv => TurnsStop
  BY DEF CodexInv, TurnsInPlace, TurnInPlace, TurnsStop, C!TurnsStop
<1> QED
  BY <1>1, CodexInvariant, PTL

\* At most one generation uses the runtime at a time, and at most one thread is in a request
\* about the account: each lock is held exactly by the thread that is where the lock is
\* needed, whatever fails on the way (codex.py:410-464, 490-581).
THEOREM LocksAreHeld == C!Spec => []LocksHeld
<1>1. CodexInv => LocksHeld
  BY DEF CodexInv
<1> QED
  BY <1>1, CodexInvariant, PTL

\* Nobody waits for what does not come, for any number of generations, runtimes and failures:
\* a thread that is under way can go on, or waits for the lock of one that can
\* (codex.py:241-267, 410-591).
THEOREM ThreadsGoOnAlways == C!Spec => []ThreadsGoOn
<1>1. CodexInv => ThreadsGoOn
  <2> SUFFICES ASSUME CodexInv PROVE ThreadsGoOn
    OBVIOUS
  <2> USE CodexAssumed DEF C!CodexAssumption
  <2>1. ThreadTypes /\ ThreadsInPlace /\ LocksHeld /\ ProviderTypes
        /\ reply \in [C!Threads -> {"none", "unread", "out", "pending", "in"} \cup C!Replies]
    BY DEF CodexInv, CodexTypes, FlagTypes
  <2>2. \A s : C!Outcomes(s) # {}
    BY DEF C!Outcomes, C!Replies
  <2>3. ASSUME NEW t \in C!Threads, pc[t] \in Locked PROVE C!Moves(t)
    BY <2>1, <2>2, <2>3 DEF C!Moves, LocksHeld, ThreadsInPlace, Locked, Generating
  <2>4. ASSUME NEW t \in C!Threads, pc[t] \notin {"idle", "quit", "new", "done"}
        PROVE  C!Moves(t) \/ (pc[t] = "check" /\ C!Moves(lock))
    <3>1. CASE t = C!Control
      BY <2>1, <2>3, <2>4, <3>1 DEF ThreadsInPlace, Locked
    <3>2. CASE t \in C!Gens /\ pc[t] \in {"queued"} \cup (Generating \ {"check", "auth"})
      BY <2>2, <3>2 DEF C!Moves, Generating
    <3>3. CASE pc[t] = "auth"
      BY <2>3, <3>3 DEF Locked
    <3>4. CASE t \in C!Gens /\ pc[t] = "check"
      <4>1. CASE lock = None
        BY <3>4, <4>1 DEF C!Moves
      <4>2. CASE lock # None
        BY <2>1, <2>3, <3>4, <4>2 DEF ProviderTypes, LocksHeld
      <4> QED
        BY <4>1, <4>2
    <3> QED
      BY <2>1, <2>4, <3>1, <3>2, <3>3, <3>4 DEF ThreadsInPlace
  <2>5. generation # None => pc[generation] \notin {"new", "queued", "done"}
    BY <2>1 DEF ProviderTypes, LocksHeld, Generating
  <2> QED
    BY <2>4, <2>5 DEF ThreadsGoOn, C!ThreadsGoOn
<1> QED
  BY <1>1, CodexInvariant, PTL
=============================================================================
