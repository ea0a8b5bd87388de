----------------------------- MODULE StoreProofs ------------------------------
(***************************************************************************)
(* Theorems about ProfileInfo, Marketplace, MediaStore, SotSync and Prices,*)
(* for every set of users, items, images and events, any number of requests*)
(* that run at once, every balance and pool, and any number of failures.   *)
(***************************************************************************)
EXTENDS ProfileInfo, Marketplace, MediaStore, SotSync, Prices, Integers, FiniteSetTheorems, TLAPS

-----------------------------------------------------------------------------
(* Counting                                                                *)

\* An image has no more elements than what it is of.
LEMMA ImageBound ==
    ASSUME NEW S, IsFiniteSet(S), NEW f
    PROVE  /\ IsFiniteSet({f[x] : x \in S})
           /\ Cardinality({f[x] : x \in S}) <= Cardinality(S)
  <1> DEFINE g == [x \in S |-> f[x]]
  <1>1. g \in Surjection(S, {f[x] : x \in S})
    BY DEF Surjection
  <1> QED
    BY <1>1, FS_Surjection

\* A union has no more elements than its parts together.
LEMMA UnionBound ==
    ASSUME NEW S, IsFiniteSet(S), NEW T, IsFiniteSet(T)
    PROVE  /\ IsFiniteSet(S \cup T)
           /\ Cardinality(S \cup T) \in Nat
           /\ Cardinality(S \cup T) <= Cardinality(S) + Cardinality(T)
  <1>1. IsFiniteSet(S \cup T) /\ IsFiniteSet(S \cap T)
    BY FS_Union, FS_Subset
  <1>2. /\ Cardinality(S \cup T) \in Nat /\ Cardinality(S \cap T) \in Nat
        /\ Cardinality(S) \in Nat /\ Cardinality(T) \in Nat
    BY <1>1, FS_CardinalityType
  <1>3. Cardinality(S \cup T) = Cardinality(S) + Cardinality(T) - Cardinality(S \cap T)
    BY FS_Union
  <1> QED
    BY <1>1, <1>2, <1>3

\* One element less.
LEMMA OneLess ==
    ASSUME NEW S, IsFiniteSet(S), NEW x \in S
    PROVE  /\ IsFiniteSet(S \ {x})
           /\ Cardinality(S \ {x}) \in Nat
           /\ Cardinality(S \ {x}) = Cardinality(S) - 1
           /\ Cardinality(S) \in Nat /\ Cardinality(S) >= 1
  <1>1. /\ IsFiniteSet(S \ {x})
        /\ Cardinality(S \ {x}) = IF x \in S THEN Cardinality(S) - 1 ELSE Cardinality(S)
    BY FS_RemoveElement
  <1>2. Cardinality(S) \in Nat /\ Cardinality(S \ {x}) \in Nat
    BY <1>1, FS_CardinalityType
  <1> QED
    BY <1>1, <1>2

-----------------------------------------------------------------------------
(* Profiles                                                                *)

\* The requests that may still give u the reward.
Dues(u) == {t \in Tellers : /\ teller[t] # Hushed /\ teller[t].user = u
                            /\ teller[t].due /\ teller[t].info
                            /\ teller[t].pc \in {"checking", "saving", "rewarding"}}

\* Nobody loads the reward as due once it was given.
RewardRoom ==
    /\ \A u \in People : rewards[u] + Cardinality(Dues(u)) <= Cardinality(Tellers)
    /\ \A u \in People : policy[u] = "given" <=> rewards[u] > 0
    /\ \A t \in Tellers : teller[t].pc = "rewarding" => teller[t].due /\ teller[t].info

\* No balance of u, in its row or loaded to be written, is further from what u was
\* given than the movements of its wallet that were not seen.
Close(x, u) == /\ -unseen[u] <= x - (rewards[u] + earned[u])
               /\ x - (rewards[u] + earned[u]) <= unseen[u]
WalletRoom ==
    /\ \A u \in People : Close(infoWallet[u], u)
    /\ \A t \in Tellers, u \in People : Holds(t, u) => Close(teller[t].seen, u)

\* What the one that runs alone has loaded is still so.
AloneAt(r) ==
    /\ r.mine = person[r.user]
    /\ r.pc \in {"checking", "saving", "rewarding"} =>
          r.due <=> policy[r.user] = "due"
    /\ r.pc = "saving" => \A u \in People : person[u].nick # r.nick
    /\ r.pc = "facing" => avatar[r.user] = r.face

CalmInfo ==
    ~crowded =>
        /\ \A s, t \in Tellers : teller[s] # Hushed /\ teller[t] # Hushed => s = t
        /\ \A u \in People : rewards[u] <= 1
        /\ \A u, w \in People : person[u].nick = person[w].nick => u = w \/ person[u].nick = Blank
        /\ \A t \in Tellers : teller[t] # Hushed => AloneAt(teller[t])

\* Until something fails, what is not settled is what the one that runs will settle.
Unsettled ==
    ~crowded /\ falls = 0 =>
        \A u \in People :
            /\ u \in told /\ policy[u] = "due" =>
                  \E t \in Tellers : teller[t].pc = "rewarding" /\ teller[t].user = u
            /\ person[u].face # avatar[u] =>
                  \E t \in Tellers : teller[t].pc = "facing" /\ teller[t].user = u

InfoInv == InfoTypeOK /\ RewardRoom /\ WalletRoom /\ CalmInfo /\ Unsettled

\* Only t goes on.
OnlyTeller(t) ==
    /\ teller' \in [Tellers -> Telling \cup {Hushed}]
    /\ \A s \in Tellers \ {t} : teller'[s] = teller[s]
TellerSteps(t) ==
    /\ OnlyTeller(t) /\ teller[t] # Hushed
    /\ teller'[t] # Hushed =>
          /\ teller'[t].user = teller[t].user /\ teller'[t].face = teller[t].face
          /\ teller'[t].nick = teller[t].nick /\ teller'[t].info = teller[t].info
          /\ teller'[t].due = teller[t].due /\ teller'[t].seen = teller[t].seen

\* A request on the profile has the fields of one.
LEMMA TellerTyped ==
    ASSUME InfoTypeOK, NEW t \in Tellers
    PROVE  /\ teller[t] = Hushed <=> teller[t].pc = "hushed"
           /\ teller[t] # Hushed =>
                /\ teller[t] \in Telling /\ teller[t].user \in People
                /\ teller[t].mine \in Person /\ teller[t].nick \in Names \cup {Blank}
                /\ teller[t].face \in Faces \cup {Blank} /\ teller[t].info \in BOOLEAN
                /\ teller[t].due \in BOOLEAN /\ teller[t].seen \in Nat
  BY DEF InfoTypeOK, Telling, Hushed

\* What a request is when it goes to its next step.
LEMMA TellShape ==
    ASSUME InfoTypeOK, NEW t \in Tellers, NEW u \in People, NEW n \in Names \cup {Blank},
           NEW f \in Faces \cup {Blank}, NEW info \in BOOLEAN, Tell(t, u, n, f, info)
    PROVE  /\ OnlyTeller(t) /\ teller[t] = Hushed /\ teller'[t] # Hushed
           /\ teller'[t].user = u /\ teller'[t].mine = person[u]
           /\ teller'[t].pc \in {"checking", "dressing"}
           /\ teller'[t].due <=> policy[u] = "due"
           /\ teller'[t].seen = infoWallet[u]
           /\ tells' \in 0..MaxTells /\ crowded' \in BOOLEAN
           /\ ~crowded' => ~crowded /\ \A s \in Tellers : teller[s] = Hushed
           /\ UNCHANGED <<person, avatar, policy, infoWallet, rewards, earned, unseen, told, falls>>
  <1> DEFINE x == [pc |-> IF n # Blank THEN "checking" ELSE "dressing", user |-> u,
                   mine |-> person[u], nick |-> n, face |-> f, info |-> info,
                   due |-> policy[u] = "due", seen |-> infoWallet[u]]
  <1>1. tells + 1 \in 0..MaxTells
    BY InfoAssumption DEF InfoTypeOK, Tell
  <1>2. person[u] \in Person /\ infoWallet[u] \in Nat /\ (policy[u] = "due") \in BOOLEAN
    BY DEF InfoTypeOK
  <1>3. x \in Telling
    BY <1>2 DEF Telling
  <1>4. teller' = [teller EXCEPT ![t] = x]
    BY DEF Tell
  <1>5. /\ x.pc \in {"checking", "dressing"} /\ x.user = u /\ x.mine = person[u]
        /\ (x.due <=> policy[u] = "due") /\ x.seen = infoWallet[u]
    OBVIOUS
  <1> HIDE DEF x
  <1>6. OnlyTeller(t) /\ teller'[t] = x
    BY <1>3, <1>4 DEF OnlyTeller, InfoTypeOK
  <1>7. x # Hushed
    BY <1>5 DEF Hushed
  <1>8. ~crowded' => ~crowded /\ \A s \in Tellers : teller[s] = Hushed
    BY DEF Tell, NobodyTells
  <1>9. teller[t] = Hushed /\ tells' = tells + 1 /\ crowded' \in BOOLEAN
        /\ UNCHANGED <<person, avatar, policy, infoWallet, rewards, earned, unseen, told, falls>>
    BY DEF Tell, InfoTypeOK
  <1> QED
    BY <1>1, <1>5, <1>6, <1>7, <1>8, <1>9

\* What each step of a request makes of the request and of its user.
LEMMA TellerShape ==
    ASSUME InfoTypeOK, NEW t \in Tellers
    PROVE  /\ CheckNickName(t) =>
                /\ TellerSteps(t) /\ teller[t].pc = "checking"
                /\ \/ teller'[t] = Hushed
                   \/ /\ teller'[t].pc = "saving" /\ teller'[t].mine = teller[t].mine
                      /\ \A u \in People : person[u].nick # teller[t].nick
           /\ SaveNickName(t) =>
                /\ TellerSteps(t) /\ teller[t].pc = "saving"
                /\ \/ teller'[t] = Hushed
                   \/ /\ teller'[t].pc = IF teller[t].info /\ teller[t].due THEN "rewarding"
                                                                           ELSE "dressing"
                      /\ teller'[t].mine = person'[teller[t].user]
                /\ teller[t].info /\ teller[t].due => teller'[t] # Hushed
           /\ GiveInfoReward(t) =>
                /\ TellerSteps(t) /\ teller[t].pc = "rewarding"
                /\ \/ teller'[t] = Hushed
                   \/ teller'[t].pc = "dressing" /\ teller'[t].mine = teller[t].mine
           /\ RollBackReward(t) =>
                TellerSteps(t) /\ teller[t].pc = "rewarding" /\ teller'[t] = Hushed
           /\ UpdateUserAvatar(t) =>
                /\ TellerSteps(t) /\ teller[t].pc = "dressing" /\ teller'[t] # Hushed
                /\ teller'[t].pc = "facing" /\ teller'[t].mine = teller[t].mine
           /\ UpdateUserProfileImage(t) =>
                TellerSteps(t) /\ teller[t].pc = "facing" /\ teller'[t] = Hushed
  <1>1. teller[t].pc # "hushed" => teller[t] # Hushed /\ teller[t] \in Telling
    BY TellerTyped
  <1>2. ASSUME teller[t] # Hushed, Fall(t)
        PROVE  TellerSteps(t) /\ teller'[t] = Hushed
    BY <1>2 DEF Fall, TellerSteps, OnlyTeller, InfoTypeOK
  <1>3. ASSUME teller[t] # Hushed, NEW p \in {"saving", "dressing", "facing"}, TurnTo(t, p)
        PROVE  /\ TellerSteps(t) /\ teller'[t] # Hushed /\ teller'[t].pc = p
               /\ teller'[t].mine = teller[t].mine
    <2> DEFINE x == [teller[t] EXCEPT !.pc = p]
    <2>1. teller[t] \in Telling
      BY <1>3, TellerTyped
    <2>2. /\ x \in Telling /\ x.pc = p /\ x.user = teller[t].user /\ x.face = teller[t].face
          /\ x.nick = teller[t].nick /\ x.info = teller[t].info /\ x.due = teller[t].due
          /\ x.seen = teller[t].seen /\ x.mine = teller[t].mine
      BY <2>1 DEF Telling
    <2>3. teller' = [teller EXCEPT ![t] = x]
      BY <1>3 DEF TurnTo
    <2> HIDE DEF x
    <2>4. teller'[t] = x /\ OnlyTeller(t)
      BY <2>2, <2>3 DEF OnlyTeller, InfoTypeOK
    <2>5. x # Hushed
      BY <2>2 DEF Hushed
    <2> QED
      BY <1>3, <2>2, <2>4, <2>5 DEF TellerSteps
  <1>4. ASSUME CheckNickName(t)
        PROVE  /\ TellerSteps(t) /\ teller[t].pc = "checking"
               /\ \/ teller'[t] = Hushed
                  \/ /\ teller'[t].pc = "saving" /\ teller'[t].mine = teller[t].mine
                     /\ \A u \in People : person[u].nick # teller[t].nick
    BY <1>1, <1>2, <1>3, <1>4 DEF CheckNickName, Comes
  <1>5. ASSUME SaveNickName(t)
        PROVE  /\ TellerSteps(t) /\ teller[t].pc = "saving"
               /\ \/ teller'[t] = Hushed
                  \/ /\ teller'[t].pc = IF teller[t].info /\ teller[t].due THEN "rewarding"
                                                                          ELSE "dressing"
                     /\ teller'[t].mine = person'[teller[t].user]
               /\ teller[t].info /\ teller[t].due => teller'[t] # Hushed
    <2> DEFINE mine == [teller[t].mine EXCEPT !.nick = teller[t].nick]
               next == IF teller[t].info /\ teller[t].due THEN "rewarding" ELSE "dressing"
               x    == [teller[t] EXCEPT !.pc = next, !.mine = mine]
    <2>1. teller[t] \in Telling /\ teller[t].pc = "saving" /\ teller[t] # Hushed
          /\ teller[t].user \in People /\ teller[t].mine \in Person
          /\ teller[t].nick \in Names \cup {Blank}
      BY <1>1, <1>5, TellerTyped DEF SaveNickName, Comes
    <2>2. mine \in Person
      BY <2>1 DEF Person
    <2>3. person' = [person EXCEPT ![teller[t].user] = mine]
      BY <1>5 DEF SaveNickName
    <2>4. teller' = [teller EXCEPT ![t] = IF next = "dressing" /\ teller[t].face = Blank
                                          THEN Hushed ELSE x]
      BY <1>5 DEF SaveNickName
    <2> HIDE DEF mine
    <2>5. person'[teller[t].user] = mine
      BY <2>1, <2>3 DEF InfoTypeOK
    <2>6. /\ x \in Telling /\ x.pc = next /\ x.user = teller[t].user /\ x.face = teller[t].face
          /\ x.nick = teller[t].nick /\ x.info = teller[t].info /\ x.due = teller[t].due
          /\ x.seen = teller[t].seen /\ x.mine = mine
      BY <2>1, <2>2 DEF Telling
    <2> HIDE DEF x
    <2>7. x # Hushed
      BY <2>6 DEF Hushed
    <2>8. OnlyTeller(t) /\ teller'[t] = IF next = "dressing" /\ teller[t].face = Blank
                                        THEN Hushed ELSE x
      BY <2>4, <2>6 DEF OnlyTeller, InfoTypeOK
    <2> QED
      BY <2>1, <2>5, <2>6, <2>7, <2>8 DEF TellerSteps
  <1>6. ASSUME GiveInfoReward(t)
        PROVE  /\ TellerSteps(t) /\ teller[t].pc = "rewarding"
               /\ \/ teller'[t] = Hushed
                  \/ teller'[t].pc = "dressing" /\ teller'[t].mine = teller[t].mine
    BY <1>1, <1>2, <1>3, <1>6 DEF GiveInfoReward, Comes, Dress
  <1>7. RollBackReward(t) =>
           TellerSteps(t) /\ teller[t].pc = "rewarding" /\ teller'[t] = Hushed
    BY <1>1, <1>2 DEF RollBackReward, Comes
  <1>8. UpdateUserAvatar(t) =>
           /\ TellerSteps(t) /\ teller[t].pc = "dressing" /\ teller'[t] # Hushed
           /\ teller'[t].pc = "facing" /\ teller'[t].mine = teller[t].mine
    BY <1>1, <1>3 DEF UpdateUserAvatar, Comes
  <1>9. UpdateUserProfileImage(t) =>
           TellerSteps(t) /\ teller[t].pc = "facing" /\ teller'[t] = Hushed
    BY <1>1, <1>2 DEF UpdateUserProfileImage, Comes
  <1> QED
    BY <1>4, <1>5, <1>6, <1>7, <1>8, <1>9

\* A request comes.
Tells(t) == \E u \in People, n \in Names \cup {Blank} :
               \/ ChangeNickName(t, u, n)
               \/ \E f \in Faces \cup {Blank} : UpdateUserInfo(t, u, n, f)

\* What a request is when it has come: it holds the user it loaded.
LEMMA TellsShape ==
    ASSUME InfoTypeOK, NEW t \in Tellers, Tells(t)
    PROVE  /\ OnlyTeller(t) /\ teller[t] = Hushed /\ teller'[t] # Hushed
           /\ teller'[t].user \in People /\ teller'[t].mine = person[teller'[t].user]
           /\ teller'[t].pc \in {"checking", "dressing"}
           /\ teller'[t].due <=> policy[teller'[t].user] = "due"
           /\ teller'[t].seen = infoWallet[teller'[t].user]
           /\ tells' \in 0..MaxTells /\ crowded' \in BOOLEAN
           /\ ~crowded' => ~crowded /\ \A s \in Tellers : teller[s] = Hushed
           /\ UNCHANGED <<person, avatar, policy, infoWallet, rewards, earned, unseen, told, falls>>
  <1>1. PICK u \in People, n \in Names \cup {Blank}, f \in Faces \cup {Blank}, info \in BOOLEAN :
           Tell(t, u, n, f, info)
    BY DEF Tells, ChangeNickName, UpdateUserInfo
  <1>2. /\ OnlyTeller(t) /\ teller[t] = Hushed /\ teller'[t] # Hushed
        /\ teller'[t].user = u /\ teller'[t].mine = person[u]
        /\ teller'[t].pc \in {"checking", "dressing"}
        /\ teller'[t].due <=> policy[u] = "due"
        /\ teller'[t].seen = infoWallet[u]
        /\ tells' \in 0..MaxTells /\ crowded' \in BOOLEAN
        /\ ~crowded' => ~crowded /\ \A s \in Tellers : teller[s] = Hushed
        /\ UNCHANGED <<person, avatar, policy, infoWallet, rewards, earned, unseen, told, falls>>
    <2> HIDE DEF Tell
    <2> QED
      BY <1>1, TellShape, ZenonT(40)
  <1> QED
    BY <1>2

\* Who takes a step.
LEMMA InfoSteps ==
    InfoNext <=> \/ \E t \in Tellers : \/ Tells(t) \/ CheckNickName(t) \/ SaveNickName(t)
                                       \/ GiveInfoReward(t) \/ RollBackReward(t)
                                       \/ UpdateUserAvatar(t) \/ UpdateUserProfileImage(t)
                 \/ \E u \in People : MoveWallet(u)
                 \/ CrashTelling
  BY DEF InfoNext, Tells

\* Every statement keeps the types.
LEMMA InfoStepTyped ==
    ASSUME InfoTypeOK, [InfoNext]_infoVars
    PROVE  InfoTypeOK'
  <1>1. ASSUME NEW t \in Tellers, Tells(t) PROVE InfoTypeOK'
    BY <1>1, TellsShape DEF OnlyTeller, InfoTypeOK
  <1>2. ASSUME NEW t \in Tellers, CheckNickName(t) PROVE InfoTypeOK'
    BY <1>2, TellerShape
       DEF CheckNickName, SameTells, SameWallets, TellerSteps, OnlyTeller, InfoTypeOK
  <1>3. ASSUME NEW t \in Tellers, SaveNickName(t) PROVE InfoTypeOK'
    <2>1. teller[t].user \in People /\ [teller[t].mine EXCEPT !.nick = teller[t].nick] \in Person
      BY <1>3, TellerShape, TellerTyped DEF TellerSteps, Person
    <2>2. person' \in [People -> Person] /\ told' \subseteq People
      BY <1>3, <2>1 DEF SaveNickName, InfoTypeOK
    <2> QED
      BY <1>3, <2>2, TellerShape
         DEF SaveNickName, SameTells, SameWallets, TellerSteps, OnlyTeller, InfoTypeOK
  <1>4. ASSUME NEW t \in Tellers, GiveInfoReward(t) PROVE InfoTypeOK'
    <2>1. teller[t].user \in People /\ teller[t].seen + 1 \in Nat
      BY <1>4, TellerShape, TellerTyped DEF TellerSteps
    <2>2. /\ infoWallet' \in [People -> Nat] /\ rewards' \in [People -> Nat]
          /\ policy' \in [People -> {"due", "given", "missing"}]
          /\ unseen' \in [People -> Nat]
      BY <1>4, <2>1 DEF GiveInfoReward, Miss, InfoTypeOK
    <2> QED
      BY <1>4, <2>2, TellerShape DEF GiveInfoReward, SameTells, TellerSteps, OnlyTeller, InfoTypeOK
  <1>5. ASSUME NEW t \in Tellers, RollBackReward(t) PROVE InfoTypeOK'
    <2>1. falls' \in 0..MaxFalls
      BY <1>5, InfoAssumption DEF RollBackReward, InfoTypeOK
    <2> QED
      BY <1>5, <2>1, TellerShape
         DEF RollBackReward, SameTells, SameWallets, TellerSteps, OnlyTeller, InfoTypeOK
  <1>6. ASSUME NEW t \in Tellers, UpdateUserAvatar(t) PROVE InfoTypeOK'
    <2>1. teller[t].user \in People /\ teller[t].face \in Faces \cup {Blank}
      BY <1>6, TellerShape, TellerTyped DEF TellerSteps
    <2> QED
      BY <1>6, <2>1, TellerShape
         DEF UpdateUserAvatar, SameTells, SameWallets, TellerSteps, OnlyTeller, InfoTypeOK
  <1>7. ASSUME NEW t \in Tellers, UpdateUserProfileImage(t) PROVE InfoTypeOK'
    <2>1. teller[t].user \in People /\ [teller[t].mine EXCEPT !.face = teller[t].face] \in Person
      BY <1>7, TellerShape, TellerTyped DEF TellerSteps, Person
    <2>2. person' \in [People -> Person]
      BY <1>7, <2>1 DEF UpdateUserProfileImage, InfoTypeOK
    <2> QED
      BY <1>7, <2>2, TellerShape
         DEF UpdateUserProfileImage, SameTells, SameWallets, TellerSteps, OnlyTeller, InfoTypeOK
  <1>8. ASSUME NEW u \in People, MoveWallet(u) PROVE InfoTypeOK'
    <2>1. PICK d \in {1, -1} :
             /\ infoWallet[u] + d >= 0 /\ Miss(u, Tellers)
             /\ infoWallet' = [infoWallet EXCEPT ![u] = @ + d]
             /\ earned' = [earned EXCEPT ![u] = @ + d]
      BY <1>8 DEF MoveWallet
    <2>2. infoWallet[u] \in Nat /\ earned[u] \in Int /\ unseen[u] \in Nat
      BY DEF InfoTypeOK
    <2>3. infoWallet' \in [People -> Nat] /\ earned' \in [People -> Int]
      BY <2>1, <2>2 DEF InfoTypeOK
    <2>4. unseen' \in [People -> Nat]
      BY <2>1, <2>2 DEF Miss, InfoTypeOK
    <2>5. tells' \in 0..MaxTells
      BY <1>8, InfoAssumption DEF MoveWallet, InfoTypeOK
    <2> QED
      BY <1>8, <2>3, <2>4, <2>5 DEF MoveWallet, InfoTypeOK
  <1>9. ASSUME CrashTelling PROVE InfoTypeOK'
    <2>1. falls' \in 0..MaxFalls
      BY <1>9, InfoAssumption DEF CrashTelling, InfoTypeOK
    <2>2. teller' \in [Tellers -> Telling \cup {Hushed}]
      BY <1>9 DEF CrashTelling
    <2> QED
      BY <1>9, <2>1, <2>2 DEF CrashTelling, SameTells, SameWallets, InfoTypeOK
  <1>10. ASSUME UNCHANGED infoVars PROVE InfoTypeOK'
    BY <1>10 DEF infoVars, InfoTypeOK
  <1> QED
    BY <1>1, <1>2, <1>3, <1>4, <1>5, <1>6, <1>7, <1>8, <1>9, <1>10, InfoSteps

\* The requests that may give the reward are finitely many.
LEMMA DuesFinite ==
    ASSUME NEW u
    PROVE  /\ IsFiniteSet(Dues(u)) /\ Cardinality(Dues(u)) \in Nat
           /\ Cardinality(Dues(u)) <= Cardinality(Tellers)
           /\ Cardinality(Tellers) \in Nat
  BY InfoAssumption, FS_Subset, FS_CardinalityType DEF Dues

\* Every statement keeps the rewards of a user, there and to come, within the
\* requests.
LEMMA RewardRoomStep ==
    ASSUME InfoTypeOK, RewardRoom, [InfoNext]_infoVars
    PROVE  RewardRoom'
  <1> DEFINE Owed(t) == teller[t].pc = "rewarding" => teller[t].due /\ teller[t].info
             Rooms(u) == rewards[u] + Cardinality(Dues(u)) <= Cardinality(Tellers)
             Told(u) == policy[u] = "given" <=> rewards[u] > 0
  <1>0. /\ \A u \in People : rewards[u] \in Nat
        /\ \A u \in People : Rooms(u) /\ Told(u)
        /\ \A t \in Tellers : Owed(t)
    BY DEF InfoTypeOK, RewardRoom
  <1>a. (\A t \in Tellers : Owed(t)') /\ (\A u \in People : Rooms(u)' /\ Told(u)') => RewardRoom'
    BY DEF RewardRoom
  \* A step after which no more are to give the reward.
  <1>b. ASSUME NEW u \in People, Dues(u)' \subseteq Dues(u), rewards'[u] = rewards[u]
        PROVE  Rooms(u)'
    <2>1. Cardinality(Dues(u)') <= Cardinality(Dues(u)) /\ Cardinality(Dues(u)') \in Nat
      BY <1>b, DuesFinite, FS_Subset, FS_CardinalityType
    <2> QED
      BY <1>0, <1>b, <2>1, DuesFinite
  <1>1. ASSUME NEW t \in Tellers, Tells(t) PROVE RewardRoom'
    <2>1. /\ OnlyTeller(t) /\ teller[t] = Hushed /\ teller'[t].pc \in {"checking", "dressing"}
          /\ teller'[t].due <=> policy[teller'[t].user] = "due"
          /\ UNCHANGED <<policy, rewards>>
      BY <1>1, TellsShape
    <2>2. \A s \in Tellers : Owed(s)'
      BY <1>0, <2>1 DEF OnlyTeller
    <2>3. ASSUME NEW u \in People PROVE Rooms(u)' /\ Told(u)'
      <3>1. CASE policy[u] = "due"
        <4>1. rewards'[u] = 0
          BY <1>0, <2>1, <3>1
        <4>2. Cardinality(Dues(u)') <= Cardinality(Tellers) /\ Cardinality(Dues(u)') \in Nat
          <5>1. Dues(u)' \subseteq Tellers
            BY DEF Dues
          <5> QED
            BY <5>1, InfoAssumption, FS_Subset, FS_CardinalityType
        <4> QED
          BY <1>0, <2>1, <4>1, <4>2, DuesFinite
      <3>2. CASE policy[u] # "due"
        <4>1. Dues(u)' \subseteq Dues(u)
          BY <2>1, <3>2 DEF Dues, OnlyTeller
        <4> QED
          BY <1>0, <1>b, <2>1, <4>1
      <3> QED
        BY <3>1, <3>2
    <2> QED
      BY <1>a, <2>2, <2>3
  <1>2. ASSUME NEW t \in Tellers,
               \/ CheckNickName(t) \/ SaveNickName(t) \/ RollBackReward(t)
               \/ UpdateUserAvatar(t) \/ UpdateUserProfileImage(t)
        PROVE  RewardRoom'
    <2>1. /\ TellerSteps(t) /\ UNCHANGED <<policy, rewards>>
          /\ teller'[t].pc = "rewarding" => teller[t].due /\ teller[t].info
          /\ teller'[t] # Hushed /\ teller'[t].pc \in {"checking", "saving", "rewarding"}
                => teller[t].pc \in {"checking", "saving", "rewarding"}
      <3>1. UNCHANGED <<policy, rewards>>
        BY <1>2 DEF CheckNickName, SaveNickName, RollBackReward, UpdateUserAvatar,
              UpdateUserProfileImage, SameWallets
      <3>2. \/ /\ TellerSteps(t) /\ teller'[t] = Hushed
            \/ /\ TellerSteps(t) /\ teller[t].pc = "checking" /\ teller'[t].pc = "saving"
            \/ /\ TellerSteps(t) /\ teller[t].pc = "saving"
               /\ teller'[t].pc = IF teller[t].info /\ teller[t].due THEN "rewarding"
                                                                      ELSE "dressing"
            \/ /\ TellerSteps(t) /\ teller'[t].pc = "facing"
        BY <1>2, TellerShape
      <3> QED
        BY <3>1, <3>2 DEF Hushed
    <2>2. \A s \in Tellers : Owed(s)'
      BY <1>0, <2>1 DEF TellerSteps, OnlyTeller, Hushed
    <2>3. \A u \in People : Dues(u)' \subseteq Dues(u)
      BY <2>1 DEF Dues, TellerSteps, OnlyTeller
    <2> QED
      BY <1>0, <1>a, <1>b, <2>1, <2>2, <2>3
  <1>3. ASSUME NEW t \in Tellers, GiveInfoReward(t) PROVE RewardRoom'
    <2>1. /\ TellerSteps(t) /\ teller[t].pc = "rewarding" /\ teller[t] # Hushed
          /\ teller'[t] = Hushed \/ teller'[t].pc = "dressing"
      BY <1>3, TellerShape DEF TellerSteps
    <2>a. PICK v \in People : v = teller[t].user
      BY <2>1, TellerTyped
    <2>2. /\ v \in People /\ rewards' = [rewards EXCEPT ![v] = @ + 1]
          /\ policy' = [policy EXCEPT ![v] = "given"]
      BY <1>3, <2>a DEF GiveInfoReward
    <2>3. \A s \in Tellers : Owed(s)'
      BY <1>0, <2>1 DEF TellerSteps, OnlyTeller, Hushed
    <2>4. t \in Dues(v) /\ Dues(v)' = Dues(v) \ {t}
      <3>1. t \in Dues(v) /\ t \notin Dues(v)'
        BY <1>0, <2>1, <2>a DEF Dues, Hushed
      <3>2. \A s \in Tellers \ {t} : s \in Dues(v)' <=> s \in Dues(v)
        BY <2>1 DEF Dues, TellerSteps, OnlyTeller
      <3>3. Dues(v) \subseteq Tellers /\ Dues(v)' \subseteq Tellers
        BY DEF Dues
      <3> QED
        BY <3>1, <3>2, <3>3
    <2>5. /\ Cardinality(Dues(v) \ {t}) = Cardinality(Dues(v)) - 1
      BY <2>4, DuesFinite, OneLess
    <2>6. Cardinality(Dues(v)') = Cardinality(Dues(v)) - 1 /\ Cardinality(Dues(v)) \in Nat
      BY <2>4, <2>5, DuesFinite
    <2>7. rewards'[v] = rewards[v] + 1 /\ policy'[v] = "given"
      BY <2>2 DEF InfoTypeOK
    <2>8. Rooms(v)' /\ Told(v)'
      BY <1>0, <2>2, <2>6, <2>7, DuesFinite
    <2>9. ASSUME NEW u \in People, u # v PROVE Rooms(u)' /\ Told(u)'
      <3>1. rewards'[u] = rewards[u] /\ policy'[u] = policy[u]
        BY <2>2, <2>9 DEF InfoTypeOK
      <3>2. Dues(u)' \subseteq Dues(u)
        BY <2>1, <2>a, <2>9 DEF Dues, TellerSteps, OnlyTeller
      <3> QED
        BY <1>0, <1>b, <3>1, <3>2
    <2> QED
      BY <1>a, <2>3, <2>8, <2>9
  <1>4. ASSUME NEW u \in People, MoveWallet(u) PROVE RewardRoom'
    BY <1>4 DEF MoveWallet, RewardRoom, Dues
  <1>5. ASSUME CrashTelling PROVE RewardRoom'
    <2>1. \A u \in People : Dues(u)' \subseteq Dues(u) /\ rewards' = rewards /\ policy' = policy
      BY <1>5 DEF CrashTelling, SameWallets, Dues
    <2>2. \A s \in Tellers : Owed(s)'
      BY <1>5 DEF CrashTelling, Hushed
    <2>3. \A u \in People : Rooms(u)' /\ Told(u)'
      BY <1>0, <1>b, <2>1
    <2> QED
      BY <1>a, <2>2, <2>3
  <1>6. ASSUME UNCHANGED infoVars PROVE RewardRoom'
    BY <1>6 DEF infoVars, RewardRoom, Dues
  <1> QED
    BY <1>1, <1>2, <1>3, <1>4, <1>5, <1>6, InfoSteps

\* A movement of the wallet of u, by d, that every request with the wallet in hand
\* but those that let it go fails to see.
Moved(u, d) ==
    /\ \A w \in People : /\ rewards'[w] + earned'[w] =
                              rewards[w] + earned[w] + IF w = u THEN d ELSE 0
                         /\ unseen'[w] >= unseen[w]
    /\ \A t \in Tellers : Holds(t, u)' => unseen'[u] = unseen[u] + 1

\* What was loaded is as close as before to a wallet that did not move, and as close
\* as the unseen movements allow to the one that did.
LEMMA CloseStays ==
    ASSUME InfoTypeOK, InfoTypeOK', NEW u \in People, NEW d \in {1, -1}, Moved(u, d),
           NEW w \in People, NEW x \in Nat, Close(x, w)
    PROVE  /\ w # u => Close(x, w)'
           /\ \A t \in Tellers : Holds(t, w)' => Close(x, w)'
           /\ Close(x + d, u)' \/ w # u
  <1>1. /\ rewards[w] \in Nat /\ earned[w] \in Int /\ unseen[w] \in Nat
        /\ rewards'[w] \in Nat /\ earned'[w] \in Int /\ unseen'[w] \in Nat
    BY DEF InfoTypeOK
  <1>2. /\ rewards'[w] + earned'[w] = rewards[w] + earned[w] + IF w = u THEN d ELSE 0
        /\ unseen'[w] >= unseen[w]
        /\ \A t \in Tellers : Holds(t, u)' => unseen'[u] = unseen[u] + 1
    BY DEF Moved
  <1>3. /\ -unseen[w] <= x - (rewards[w] + earned[w])
        /\ x - (rewards[w] + earned[w]) <= unseen[w]
    BY DEF Close
  <1>4. w # u => Close(x, w)'
    BY <1>1, <1>2, <1>3 DEF Close
  <1>5. ASSUME NEW t \in Tellers, Holds(t, w)', w = u PROVE Close(x, w)'
    <2>1. unseen'[w] = unseen[w] + 1
      BY <1>2, <1>5
    <2> QED
      BY <1>1, <1>2, <1>3, <1>5, <2>1 DEF Close
  <1>6. w = u => Close(x + d, u)'
    BY <1>1, <1>2, <1>3 DEF Close
  <1> QED
    BY <1>4, <1>5, <1>6

\* Every statement keeps the wallet close to what was given.
LEMMA WalletRoomStep ==
    ASSUME InfoTypeOK, WalletRoom, [InfoNext]_infoVars
    PROVE  WalletRoom'
  <1>0. /\ \A u \in People : /\ rewards[u] \in Nat /\ earned[u] \in Int
                             /\ infoWallet[u] \in Nat /\ unseen[u] \in Nat
        /\ \A t \in Tellers, u \in People : Holds(t, u) =>
              teller[t] # Hushed /\ teller[t].seen \in Nat /\ teller[t].user = u
    BY TellerTyped DEF InfoTypeOK, Holds, Hushed
  <1>a. InfoTypeOK'
    BY InfoStepTyped
  \* A step that moves no wallet and gives no request another balance.
  <1>b. ASSUME UNCHANGED <<infoWallet, rewards, earned, unseen>>,
               \A t \in Tellers, u \in People : Holds(t, u)' =>
                  \/ Holds(t, u) /\ teller'[t].seen = teller[t].seen
                  \/ teller'[t].seen = infoWallet[u]
        PROVE  WalletRoom'
    BY <1>b DEF WalletRoom, Close
  <1>1. ASSUME NEW t \in Tellers, Tells(t) PROVE WalletRoom'
    <2>1. /\ OnlyTeller(t) /\ teller'[t].user \in People
          /\ teller'[t].seen = infoWallet[teller'[t].user]
          /\ UNCHANGED <<infoWallet, rewards, earned, unseen>>
      BY <1>1, TellsShape
    <2>2. \A s \in Tellers, u \in People : Holds(s, u)' =>
             \/ Holds(s, u) /\ teller'[s].seen = teller[s].seen
             \/ teller'[s].seen = infoWallet[u]
      BY <2>1 DEF Holds, OnlyTeller
    <2> QED
      BY <1>b, <2>1, <2>2
  <1>2. ASSUME NEW t \in Tellers,
               \/ CheckNickName(t) \/ SaveNickName(t) \/ RollBackReward(t)
               \/ UpdateUserAvatar(t) \/ UpdateUserProfileImage(t)
        PROVE  WalletRoom'
    <2>1. UNCHANGED <<infoWallet, rewards, earned, unseen>>
      BY <1>2 DEF CheckNickName, SaveNickName, RollBackReward, UpdateUserAvatar,
            UpdateUserProfileImage, SameTells, SameWallets
    <2>2. /\ TellerSteps(t)
          /\ teller'[t] = Hushed \/ teller'[t].pc = "facing"
             \/ teller[t].pc \in {"checking", "saving"}
      BY <1>2, TellerShape
    <2>3. \A s \in Tellers, u \in People : Holds(s, u)' =>
             Holds(s, u) /\ teller'[s].seen = teller[s].seen
      BY <2>2 DEF Holds, TellerSteps, OnlyTeller, Hushed
    <2> QED
      BY <1>b, <2>1, <2>3
  <1>3. ASSUME NEW t \in Tellers, GiveInfoReward(t) PROVE WalletRoom'
    <2>1. /\ TellerSteps(t) /\ teller[t].pc = "rewarding" /\ teller[t] # Hushed
          /\ teller'[t] = Hushed \/ teller'[t].pc = "dressing"
      BY <1>3, TellerShape DEF TellerSteps
    <2>a. PICK v \in People : v = teller[t].user
      BY <2>1, TellerTyped
    <2>b. Holds(t, v)
      BY <2>1, <2>a DEF Holds
    <2>c. PICK x \in Nat : x = teller[t].seen /\ Close(x, v)
      BY <1>0, <2>b DEF WalletRoom
    <2>2. /\ rewards' = [rewards EXCEPT ![v] = @ + 1]
          /\ infoWallet' = [infoWallet EXCEPT ![v] = x + 1]
          /\ earned' = earned /\ Miss(v, Tellers \ {t})
      BY <1>3, <2>a, <2>c DEF GiveInfoReward, SameTells
    <2>3. \A s \in Tellers, u \in People : Holds(s, u)' =>
             s # t /\ Holds(s, u) /\ teller'[s].seen = teller[s].seen
      BY <2>1 DEF Holds, TellerSteps, OnlyTeller, Hushed
    <2>4. Moved(v, 1)
      <3>1. \A w \in People : /\ rewards'[w] = rewards[w] + (IF w = v THEN 1 ELSE 0)
                              /\ earned'[w] = earned[w]
        BY <1>0, <2>2 DEF InfoTypeOK
      <3>2. \A w \in People : rewards'[w] + earned'[w] =
                                 rewards[w] + earned[w] + IF w = v THEN 1 ELSE 0
        BY <1>0, <3>1
      <3>3. \A w \in People : unseen'[w] >= unseen[w]
        BY <1>0, <2>2 DEF Miss, InfoTypeOK
      <3>4. \A s \in Tellers : Holds(s, v)' => unseen'[v] = unseen[v] + 1
        BY <2>2, <2>3 DEF Miss, InfoTypeOK
      <3> QED
        BY <3>2, <3>3, <3>4 DEF Moved
    <2>5. ASSUME NEW u \in People PROVE Close(infoWallet[u], u)'
      <3>1. CASE u = v
        <4>1. infoWallet'[v] = x + 1
          BY <2>2 DEF InfoTypeOK
        <4>2. Close(x + 1, v)'
          BY <1>a, <2>4, <2>c, CloseStays
        <4> QED
          BY <3>1, <4>1, <4>2 DEF Close
      <3>2. CASE u # v
        <4>1. PICK y \in Nat : y = infoWallet[u] /\ Close(y, u)
          BY <1>0 DEF WalletRoom
        <4>2. Close(y, u)'
          BY <1>a, <2>4, <3>2, <4>1, CloseStays
        <4>3. infoWallet'[u] = y
          BY <2>2, <3>2, <4>1 DEF InfoTypeOK
        <4> QED
          BY <4>2, <4>3 DEF Close
      <3> QED
        BY <3>1, <3>2
    <2>6. ASSUME NEW s \in Tellers, NEW u \in People, Holds(s, u)'
          PROVE  Close(teller[s].seen, u)'
      <3>1. PICK y \in Nat : y = teller[s].seen /\ Close(y, u)
        BY <1>0, <2>3, <2>6 DEF WalletRoom
      <3>2. Close(y, u)'
        BY <1>a, <2>4, <2>6, <3>1, CloseStays
      <3>3. teller'[s].seen = y
        BY <2>3, <2>6, <3>1
      <3> QED
        BY <3>2, <3>3 DEF Close
    <2> QED
      BY <2>5, <2>6 DEF WalletRoom
  <1>4. ASSUME NEW v \in People, MoveWallet(v) PROVE WalletRoom'
    <2>1. PICK d \in {1, -1} :
             /\ infoWallet[v] + d >= 0 /\ Miss(v, Tellers)
             /\ infoWallet' = [infoWallet EXCEPT ![v] = @ + d]
             /\ earned' = [earned EXCEPT ![v] = @ + d]
      BY <1>4 DEF MoveWallet
    <2>2. rewards' = rewards /\ teller' = teller
      BY <1>4 DEF MoveWallet
    <2>3. Moved(v, d)
      <3>1. \A w \in People : earned'[w] = earned[w] + (IF w = v THEN d ELSE 0)
        BY <1>0, <2>1 DEF InfoTypeOK
      <3>2. \A w \in People : rewards'[w] + earned'[w] =
                                 rewards[w] + earned[w] + IF w = v THEN d ELSE 0
        BY <1>0, <2>2, <3>1
      <3>3. \A w \in People : unseen'[w] >= unseen[w]
        BY <1>0, <2>1 DEF Miss, InfoTypeOK
      <3>4. \A s \in Tellers : Holds(s, v)' => unseen'[v] = unseen[v] + 1
        BY <2>1, <2>2 DEF Miss, Holds, InfoTypeOK
      <3> QED
        BY <3>2, <3>3, <3>4 DEF Moved
    <2>4. ASSUME NEW u \in People PROVE Close(infoWallet[u], u)'
      <3>1. PICK y \in Nat : y = infoWallet[u] /\ Close(y, u)
        BY <1>0 DEF WalletRoom
      <3>2. CASE u = v
        <4>1. infoWallet'[u] = y + d
          BY <2>1, <3>1, <3>2 DEF InfoTypeOK
        <4>2. Close(y + d, u)'
          BY <1>a, <2>3, <3>1, <3>2, CloseStays
        <4> QED
          BY <4>1, <4>2 DEF Close
      <3>3. CASE u # v
        <4>1. infoWallet'[u] = y
          BY <2>1, <3>1, <3>3 DEF InfoTypeOK
        <4>2. Close(y, u)'
          BY <1>a, <2>3, <3>1, <3>3, CloseStays
        <4> QED
          BY <4>1, <4>2 DEF Close
      <3> QED
        BY <3>2, <3>3
    <2>5. ASSUME NEW s \in Tellers, NEW u \in People, Holds(s, u)'
          PROVE  Close(teller[s].seen, u)'
      <3>1. Holds(s, u)
        BY <2>2, <2>5 DEF Holds
      <3>2. PICK y \in Nat : y = teller[s].seen /\ Close(y, u)
        BY <1>0, <3>1 DEF WalletRoom
      <3>3. Close(y, u)'
        BY <1>a, <2>3, <2>5, <3>2, CloseStays
      <3> QED
        BY <2>2, <3>2, <3>3 DEF Close
    <2> QED
      BY <2>4, <2>5 DEF WalletRoom
  <1>5. ASSUME CrashTelling PROVE WalletRoom'
    <2>1. /\ UNCHANGED <<infoWallet, rewards, earned, unseen>>
          /\ \A t \in Tellers : teller'[t] = Hushed
      BY <1>5 DEF CrashTelling, SameTells, SameWallets
    <2> QED
      BY <1>b, <2>1 DEF Holds, Hushed
  <1>6. ASSUME UNCHANGED infoVars PROVE WalletRoom'
    BY <1>6 DEF infoVars, WalletRoom, Close, Holds
  <1> QED
    BY <1>1, <1>2, <1>3, <1>4, <1>5, <1>6, InfoSteps

\* While requests do not meet, what they have loaded is still so.
LEMMA CalmInfoStep ==
    ASSUME InfoTypeOK, RewardRoom, CalmInfo, [InfoNext]_infoVars
    PROVE  CalmInfo'
  <1> DEFINE Lone == \A s, t \in Tellers : teller[s] # Hushed /\ teller[t] # Hushed => s = t
             Rewarded == \A u \in People : rewards[u] <= 1
             Named == \A u, w \in People :
                         person[u].nick = person[w].nick => u = w \/ person[u].nick = Blank
             Fits == \A t \in Tellers : teller[t] # Hushed => AloneAt(teller[t])
  <1>0. ~crowded => Lone /\ Rewarded /\ Named /\ Fits
    BY DEF CalmInfo
  <1>a. (~crowded' => Lone' /\ Rewarded' /\ Named' /\ Fits') => CalmInfo'
    BY DEF CalmInfo
  <1>b. \A u \in People : rewards[u] \in Nat
    BY DEF InfoTypeOK
  \* The request that runs alone takes a step.
  <1>c. ASSUME NEW t \in Tellers, TellerSteps(t), ~crowded
        PROVE  /\ Lone' /\ teller[t].user \in People /\ AloneAt(teller[t])
               /\ (teller'[t] # Hushed => AloneAt(teller[t])') => Fits'
    <2>1. /\ \A s \in Tellers : teller[s] # Hushed => s = t
          /\ AloneAt(teller[t]) /\ teller[t].user \in People
      BY <1>0, <1>c, TellerTyped DEF TellerSteps
    <2>2. \A s \in Tellers : teller'[s] # Hushed => s = t
      BY <1>c, <2>1 DEF TellerSteps, OnlyTeller
    <2> QED
      BY <2>1, <2>2
  <1>1. ASSUME NEW t \in Tellers, Tells(t) PROVE CalmInfo'
    <2>1. /\ OnlyTeller(t) /\ teller'[t].user \in People /\ teller'[t].mine = person[teller'[t].user]
          /\ teller'[t].pc \in {"checking", "dressing"}
          /\ teller'[t].due <=> policy[teller'[t].user] = "due"
          /\ ~crowded' => ~crowded /\ \A s \in Tellers : teller[s] = Hushed
          /\ UNCHANGED <<person, avatar, policy, rewards>>
      BY <1>1, TellsShape
    <2>2. AloneAt(teller[t])'
      BY <2>1 DEF AloneAt
    <2>3. ~crowded' => \A s \in Tellers : teller'[s] # Hushed => s = t
      BY <2>1 DEF OnlyTeller
    <2> QED
      BY <1>0, <1>a, <2>1, <2>2, <2>3
  <1>2. ASSUME NEW t \in Tellers, CheckNickName(t), ~crowded PROVE CalmInfo'
    <2>1. /\ TellerSteps(t) /\ teller[t].pc = "checking"
          /\ teller'[t] # Hushed => /\ teller'[t].pc = "saving" /\ teller'[t].mine = teller[t].mine
                                     /\ \A u \in People : person[u].nick # teller[t].nick
          /\ UNCHANGED <<person, avatar, policy, rewards, crowded>>
      BY <1>2, TellerShape DEF CheckNickName, SameTells, SameWallets
    <2>2. teller'[t] # Hushed => AloneAt(teller[t])'
      BY <1>c, <1>2, <2>1 DEF AloneAt, TellerSteps
    <2> QED
      BY <1>0, <1>a, <1>c, <1>2, <2>1, <2>2
  <1>3. ASSUME NEW t \in Tellers, SaveNickName(t), ~crowded PROVE CalmInfo'
    <2>1. /\ TellerSteps(t) /\ teller[t].pc = "saving"
          /\ teller'[t] # Hushed => /\ teller'[t].pc \in {"rewarding", "dressing"}
                                     /\ teller'[t].mine = person'[teller[t].user]
          /\ UNCHANGED <<avatar, policy, rewards, crowded>>
      BY <1>3, TellerShape DEF SaveNickName, SameTells, SameWallets
    <2>a. PICK v \in People : v = teller[t].user
      BY <1>c, <1>3, <2>1
    <2>2. teller'[t] # Hushed => AloneAt(teller[t])'
      BY <1>c, <1>3, <2>1 DEF AloneAt, TellerSteps
    <2>3. /\ \A u \in People : person[u].nick # teller[t].nick
          /\ person'[v].nick = teller[t].nick
          /\ \A u \in People \ {v} : person'[u] = person[u]
      <3>1. /\ \A u \in People : person[u].nick # teller[t].nick
            /\ teller[t].mine \in Person
        BY <1>c, <1>3, <2>1, TellerTyped DEF AloneAt, TellerSteps
      <3>2. person' = [person EXCEPT ![v] = [teller[t].mine EXCEPT !.nick = teller[t].nick]]
        BY <1>3, <2>a DEF SaveNickName
      <3> QED
        BY <3>1, <3>2 DEF InfoTypeOK, Person
    <2>4. Named'
      BY <1>0, <1>3, <2>3
    <2> QED
      BY <1>0, <1>a, <1>c, <1>3, <2>1, <2>2, <2>4
  <1>4. ASSUME NEW t \in Tellers, GiveInfoReward(t), ~crowded PROVE CalmInfo'
    <2>1. /\ TellerSteps(t) /\ teller[t].pc = "rewarding"
          /\ teller'[t] # Hushed => teller'[t].pc = "dressing" /\ teller'[t].mine = teller[t].mine
          /\ UNCHANGED <<person, avatar, crowded>>
      BY <1>4, TellerShape DEF GiveInfoReward, SameTells
    <2>a. PICK v \in People : v = teller[t].user
      BY <1>c, <1>4, <2>1
    <2>2. teller'[t] # Hushed => AloneAt(teller[t])'
      BY <1>c, <1>4, <2>1 DEF AloneAt, TellerSteps
    <2>3. policy[v] = "due"
      BY <1>c, <1>4, <2>1, <2>a DEF AloneAt, RewardRoom
    <2>4. rewards[v] = 0
      BY <1>b, <2>3 DEF RewardRoom
    <2>5. rewards'[v] = rewards[v] + 1 /\ \A u \in People \ {v} : rewards'[u] = rewards[u]
      BY <1>4, <2>a, <2>3 DEF GiveInfoReward, InfoTypeOK
    <2>6. Rewarded'
      BY <1>0, <1>b, <1>4, <2>1, <2>4, <2>5
    <2> QED
      BY <1>0, <1>a, <1>c, <1>4, <2>1, <2>2, <2>6
  <1>5. ASSUME NEW t \in Tellers, ~crowded,
               RollBackReward(t) \/ UpdateUserAvatar(t) \/ UpdateUserProfileImage(t)
        PROVE  CalmInfo'
    <2>1. TellerSteps(t) /\ UNCHANGED <<policy, rewards, crowded>>
      BY <1>5, TellerShape
         DEF RollBackReward, UpdateUserAvatar, UpdateUserProfileImage, SameTells, SameWallets
    <2>2. teller'[t] # Hushed => AloneAt(teller[t])'
      <3>1. CASE UpdateUserAvatar(t)
        <4>1. /\ teller'[t].pc = "facing" /\ teller'[t].mine = teller[t].mine
              /\ UNCHANGED <<person>> /\ teller'[t].user = teller[t].user
              /\ teller'[t].face = teller[t].face
          BY <3>1, TellerShape DEF UpdateUserAvatar, TellerSteps
        <4>2. avatar'[teller[t].user] = teller[t].face
          BY <1>c, <1>5, <2>1, <3>1 DEF UpdateUserAvatar, InfoTypeOK
        <4> QED
          BY <1>c, <1>5, <2>1, <4>1, <4>2 DEF AloneAt
      <3>2. CASE RollBackReward(t) \/ UpdateUserProfileImage(t)
        BY <3>2, TellerShape
      <3> QED
        BY <1>5, <3>1, <3>2
    <2>3. Named'
      <3>1. CASE UpdateUserProfileImage(t)
        <4>1. /\ teller[t].user \in People /\ teller[t].mine = person[teller[t].user]
              /\ teller[t].mine \in Person
          BY <1>c, <1>5, <2>1, TellerTyped DEF AloneAt, TellerSteps
        <4>2. \A u \in People : person'[u].nick = person[u].nick
          BY <3>1, <4>1 DEF UpdateUserProfileImage, InfoTypeOK, Person
        <4> QED
          BY <1>0, <1>5, <4>2
      <3>2. CASE RollBackReward(t) \/ UpdateUserAvatar(t)
        <4>1. person' = person
          BY <3>2 DEF RollBackReward, UpdateUserAvatar
        <4> QED
          BY <1>0, <1>5, <4>1
      <3> QED
        BY <1>5, <3>1, <3>2
    <2> QED
      BY <1>0, <1>a, <1>c, <1>5, <2>1, <2>2, <2>3
  <1>6. ASSUME NEW u \in People, MoveWallet(u) PROVE CalmInfo'
    <2>1. /\ ~crowded' => ~crowded /\ \A t \in Tellers : teller[t] = Hushed
          /\ UNCHANGED <<person, rewards, teller>>
      BY <1>6 DEF MoveWallet, NobodyTells
    <2> QED
      BY <1>0, <1>a, <2>1
  <1>7. ASSUME CrashTelling PROVE CalmInfo'
    <2>1. /\ UNCHANGED <<person, rewards, crowded>>
          /\ \A t \in Tellers : teller'[t] = Hushed
      BY <1>7 DEF CrashTelling, SameTells, SameWallets
    <2> QED
      BY <1>0, <1>a, <2>1
  <1>8. ASSUME UNCHANGED infoVars PROVE CalmInfo'
    BY <1>8 DEF infoVars, CalmInfo, AloneAt
  <1>9. ASSUME crowded, NEW t \in Tellers,
               \/ CheckNickName(t) \/ SaveNickName(t) \/ GiveInfoReward(t) \/ RollBackReward(t)
               \/ UpdateUserAvatar(t) \/ UpdateUserProfileImage(t)
        PROVE  CalmInfo'
    BY <1>9 DEF CalmInfo, CheckNickName, SaveNickName, GiveInfoReward, RollBackReward,
          UpdateUserAvatar, UpdateUserProfileImage, SameTells
  <1> QED
    BY <1>1, <1>2, <1>3, <1>4, <1>5, <1>6, <1>7, <1>8, <1>9, InfoSteps

\* While nothing failed, what is unsettled has a request that settles it.
LEMMA UnsettledStep ==
    ASSUME InfoTypeOK, CalmInfo, Unsettled, [InfoNext]_infoVars
    PROVE  Unsettled'
  <1> DEFINE Waits(u) == u \in told /\ policy[u] = "due"
             Served(t, u) == teller[t].pc = "rewarding" /\ teller[t].user = u
             Differs(u) == person[u].face # avatar[u]
             Faced(t, u) == teller[t].pc = "facing" /\ teller[t].user = u
             Due(u) == Waits(u) => \E t \in Tellers : Served(t, u)
             Odd(u) == Differs(u) => \E t \in Tellers : Faced(t, u)
  <1>0. ~crowded /\ falls = 0 => \A u \in People : Due(u) /\ Odd(u)
    BY DEF Unsettled
  <1>a. (~crowded' /\ falls' = 0 => \A u \in People : Due(u)' /\ Odd(u)') => Unsettled'
    BY DEF Unsettled
  \* The others go on to settle what they were to settle.
  <1>b. ASSUME NEW t \in Tellers, OnlyTeller(t), NEW u \in People,
               ~Served(t, u) \/ Served(t, u)', Waits(u)' => Waits(u), Due(u)
        PROVE  Due(u)'
    BY <1>b DEF OnlyTeller
  <1>c. ASSUME NEW t \in Tellers, OnlyTeller(t), NEW u \in People,
               ~Faced(t, u) \/ Faced(t, u)', Differs(u)' => Differs(u), Odd(u)
        PROVE  Odd(u)'
    BY <1>c DEF OnlyTeller
  <1>1. ASSUME NEW t \in Tellers, Tells(t), ~crowded', falls' = 0
        PROVE  \A u \in People : Due(u)' /\ Odd(u)'
    <2>1. /\ OnlyTeller(t) /\ teller[t] = Hushed /\ ~crowded /\ falls = 0
          /\ UNCHANGED <<person, avatar, policy, told>>
      BY <1>1, TellsShape
    <2>2. \A u \in People : ~Served(t, u) /\ ~Faced(t, u)
      BY <2>1 DEF Hushed
    <2> QED
      BY <1>0, <1>b, <1>c, <2>1, <2>2
  <1>2. ASSUME NEW t \in Tellers, CheckNickName(t), ~crowded', falls' = 0
        PROVE  \A u \in People : Due(u)' /\ Odd(u)'
    <2>1. /\ OnlyTeller(t) /\ teller[t].pc = "checking" /\ ~crowded /\ falls = 0
          /\ UNCHANGED <<person, avatar, policy, told>>
      BY <1>2, TellerShape DEF TellerSteps, CheckNickName, SameTells
    <2> QED
      BY <1>0, <1>b, <1>c, <2>1
  <1>3. ASSUME NEW t \in Tellers, SaveNickName(t), ~crowded', falls' = 0
        PROVE  \A u \in People : Due(u)' /\ Odd(u)'
    <2>1. /\ TellerSteps(t) /\ OnlyTeller(t) /\ teller[t].pc = "saving" /\ teller[t] # Hushed
          /\ ~crowded /\ falls = 0 /\ UNCHANGED <<avatar, policy>>
      BY <1>3, TellerShape DEF TellerSteps, SaveNickName, SameTells
    <2>2. /\ teller[t].info /\ teller[t].due =>
                teller'[t] # Hushed /\ teller'[t].pc = "rewarding"
      BY <1>3, TellerShape DEF Hushed
    <2>a. PICK v \in People : v = teller[t].user
      BY <2>1, TellerTyped
    <2>3. AloneAt(teller[t])
      BY <2>1 DEF CalmInfo
    <2>4. \A u \in People : Differs(u)' => Differs(u)
      <3>1. person' = [person EXCEPT ![v] = [teller[t].mine EXCEPT !.nick = teller[t].nick]]
        BY <1>3, <2>a DEF SaveNickName
      <3>2. teller[t].mine = person[v] /\ teller[t].mine \in Person
        BY <2>1, <2>a, <2>3, TellerTyped DEF AloneAt
      <3>3. \A u \in People : person'[u].face = person[u].face
        BY <3>1, <3>2 DEF InfoTypeOK, Person
      <3> QED
        BY <2>1, <3>3
    <2>5. ASSUME NEW u \in People PROVE Due(u)'
      <3>1. CASE u = v /\ teller[t].info /\ Waits(u)'
        <4>1. teller[t].due
          BY <2>1, <2>a, <2>3, <3>1 DEF AloneAt
        <4> QED
          BY <2>1, <2>2, <2>a, <3>1, <4>1 DEF TellerSteps
      <3>2. CASE ~(u = v /\ teller[t].info /\ Waits(u)')
        <4>1. Waits(u)' => Waits(u)
          BY <1>3, <2>1, <2>a, <3>2 DEF SaveNickName
        <4> QED
          BY <1>0, <1>b, <2>1, <4>1
      <3> QED
        BY <3>1, <3>2
    <2> QED
      BY <1>0, <1>c, <2>1, <2>4, <2>5
  <1>4. ASSUME NEW t \in Tellers, GiveInfoReward(t), ~crowded', falls' = 0
        PROVE  \A u \in People : Due(u)' /\ Odd(u)'
    <2>1. /\ OnlyTeller(t) /\ teller[t].pc = "rewarding" /\ teller[t] # Hushed
          /\ ~crowded /\ falls = 0 /\ UNCHANGED <<person, avatar, told>>
      BY <1>4, TellerShape DEF TellerSteps, GiveInfoReward, SameTells
    <2>a. PICK v \in People : v = teller[t].user
      BY <2>1, TellerTyped
    <2>2. /\ policy'[v] = "given" /\ \A u \in People \ {v} : policy'[u] = policy[u]
      BY <1>4, <2>a DEF GiveInfoReward, InfoTypeOK
    <2>3. ASSUME NEW u \in People PROVE Due(u)'
      BY <1>0, <1>b, <2>1, <2>2, <2>a
    <2> QED
      BY <1>0, <1>c, <2>1, <2>3
  <1>5. ASSUME NEW t \in Tellers, UpdateUserAvatar(t), ~crowded', falls' = 0
        PROVE  \A u \in People : Due(u)' /\ Odd(u)'
    <2>1. /\ OnlyTeller(t) /\ teller[t].pc = "dressing" /\ teller[t] # Hushed
          /\ ~crowded /\ falls = 0 /\ UNCHANGED <<person, policy, told>>
          /\ teller'[t].pc = "facing" /\ teller'[t].user = teller[t].user
      BY <1>5, TellerShape DEF TellerSteps, UpdateUserAvatar, SameTells
    <2>2. \A u \in People : u # teller[t].user => avatar'[u] = avatar[u]
      BY <1>5 DEF UpdateUserAvatar, InfoTypeOK
    <2>3. ASSUME NEW u \in People PROVE Odd(u)'
      BY <1>0, <1>c, <2>1, <2>2
    <2> QED
      BY <1>0, <1>b, <2>1, <2>3
  <1>6. ASSUME NEW t \in Tellers, UpdateUserProfileImage(t), ~crowded', falls' = 0
        PROVE  \A u \in People : Due(u)' /\ Odd(u)'
    <2>1. /\ OnlyTeller(t) /\ teller[t].pc = "facing" /\ teller[t] # Hushed
          /\ ~crowded /\ falls = 0 /\ UNCHANGED <<avatar, policy, told>>
      BY <1>6, TellerShape DEF TellerSteps, UpdateUserProfileImage, SameTells
    <2>a. PICK v \in People : v = teller[t].user
      BY <2>1, TellerTyped
    <2>2. avatar[v] = teller[t].face /\ teller[t].mine \in Person
      BY <2>1, <2>a, TellerTyped DEF CalmInfo, AloneAt
    <2>3. person'[v].face = teller[t].face /\ \A u \in People \ {v} : person'[u] = person[u]
      BY <1>6, <2>a, <2>2 DEF UpdateUserProfileImage, InfoTypeOK, Person
    <2>4. ASSUME NEW u \in People PROVE Odd(u)'
      BY <1>0, <1>c, <2>1, <2>2, <2>3, <2>a
    <2> QED
      BY <1>0, <1>b, <2>1, <2>4
  <1>7. ASSUME NEW t \in Tellers, RollBackReward(t) PROVE falls' # 0
    BY <1>7 DEF RollBackReward, InfoTypeOK
  <1>8. ASSUME CrashTelling PROVE falls' # 0
    BY <1>8 DEF CrashTelling, InfoTypeOK
  <1>9. ASSUME NEW u \in People, MoveWallet(u) PROVE Unsettled'
    <2>1. UNCHANGED <<person, avatar, policy, told, teller, falls>> /\ (crowded => crowded')
      BY <1>9 DEF MoveWallet
    <2> QED
      BY <1>0, <1>a, <2>1
  <1>10. ASSUME UNCHANGED infoVars PROVE Unsettled'
    BY <1>10 DEF infoVars, Unsettled
  <1> QED
    BY <1>a, <1>1, <1>2, <1>3, <1>4, <1>5, <1>6, <1>7, <1>8, <1>9, <1>10, InfoSteps

\* At the start nothing was given.
LEMMA InfoStart ==
    ASSUME InfoInit
    PROVE  InfoInv
  <1>1. InfoTypeOK
    <2>1. 0 \in 0..MaxTells /\ 0 \in 0..MaxFalls /\ 0 \in Nat /\ 0 \in Int
      BY InfoAssumption
    <2>2. /\ infoWallet \in [People -> Nat] /\ rewards \in [People -> Nat]
          /\ earned \in [People -> Int] /\ unseen \in [People -> Nat]
      BY <2>1 DEF InfoInit
    <2>3. /\ person \in [People -> Person] /\ avatar \in [People -> Faces \cup {Blank}]
          /\ policy \in [People -> {"due", "given", "missing"}]
          /\ teller \in [Tellers -> Telling \cup {Hushed}]
      BY DEF InfoInit, Person
    <2> QED
      BY <2>1, <2>2, <2>3 DEF InfoInit, InfoTypeOK
  <1>2. \A t \in Tellers : teller[t] = Hushed
    BY DEF InfoInit
  <1>3. RewardRoom
    <2>1. \A u \in People : Dues(u) = {}
      BY <1>2 DEF Dues
    <2>2. Cardinality({}) = 0 /\ Cardinality(Tellers) \in Nat
      BY InfoAssumption, FS_EmptySet, FS_CardinalityType
    <2>3. \A u \in People : rewards[u] + Cardinality(Dues(u)) <= Cardinality(Tellers)
      BY <2>1, <2>2 DEF InfoInit
    <2> QED
      BY <1>2, <2>3 DEF RewardRoom, InfoInit, Hushed
  <1>4. WalletRoom
    BY <1>2 DEF WalletRoom, Close, Holds, Hushed, InfoInit
  <1>5. CalmInfo
    BY <1>2 DEF CalmInfo, InfoInit
  <1>6. Unsettled
    BY DEF Unsettled, InfoInit
  <1> QED
    BY <1>1, <1>3, <1>4, <1>5, <1>6 DEF InfoInv

\* The reward for telling about oneself is given at most once to a request of all
\* that run, so once if none meet; the policy knows of it; the wallet is off what was
\* given and taken by no more than the movements that a request holding it did not
\* see; nobody shares a nickname unless requests meet; and at rest, with nothing
\* failed, who told was rewarded and has the picture of the avatar.
THEOREM InfoKept == InfoSpec => []InfoSound
  <1>1. InfoInv /\ [InfoNext]_infoVars => InfoInv'
    BY InfoStepTyped, RewardRoomStep, WalletRoomStep, CalmInfoStep, UnsettledStep DEF InfoInv
  <1>2. InfoInv => InfoSound
    <2>1. ASSUME InfoInv PROVE InfoSound
      <3>1. InfoRewardedOnce
        <4>1. ASSUME NEW u \in People PROVE rewards[u] <= Cardinality(Tellers)
          <5>1. rewards[u] \in Nat /\ rewards[u] + Cardinality(Dues(u)) <= Cardinality(Tellers)
            BY <2>1 DEF InfoInv, RewardRoom, InfoTypeOK
          <5> QED
            BY <5>1, DuesFinite
        <4> QED
          BY <2>1, <4>1 DEF InfoInv, RewardRoom, CalmInfo, InfoRewardedOnce
      <3>2. InfoWalletBacked /\ NicknamesUnique
        BY <2>1 DEF InfoInv, WalletRoom, Close, CalmInfo, InfoWalletBacked, NicknamesUnique
      <3>3. NothingHalfTold
        BY <2>1 DEF InfoInv, Unsettled, NothingHalfTold, NobodyTells, InfoTypeOK, Hushed
      <3> QED
        BY <2>1, <3>1, <3>2, <3>3 DEF InfoInv, InfoSound
    <2> QED
      BY <2>1
  <1> QED
    BY <1>1, <1>2, InfoStart, PTL DEF InfoSpec

-----------------------------------------------------------------------------
(* The marketplace                                                         *)

-----------------------------------------------------------------------------
(* Facts about requests                                                    *)

\* A set of items has a number of elements.
LEMMA ItemsAreCounted ==
  ASSUME NEW S \in SUBSET Items
  PROVE  IsFiniteSet(S) /\ Cardinality(S) \in Nat
  BY ItemsAssumption, FS_Subset, FS_CardinalityType

\* What a request is, by its program counter.
LEMMA RequestIs ==
  ASSUME MarketTypeOK, NEW b \in Buyers
  PROVE  /\ buyer[b] # Away <=> buyer[b] \in Shopping
         /\ buyer[b] # Away <=> buyer[b].pc # "away"
         /\ Trades(b) => buyer[b] \in Shopping
  BY DEF MarketTypeOK, Shopping, Away, Trades, InTransaction, HasPaid

\* A request that moves keeps what it knows.
LEMMA Moving ==
  ASSUME MarketTypeOK, NEW b \in Buyers, buyer[b] # Away,
         NEW p \in {"finding", "adding", "carting", "connecting"} \cup InTransaction,
         Move(b, p)
  PROVE  /\ buyer' \in [Buyers -> Shopping \cup {Away}]
         /\ buyer'[b] \in Shopping
         /\ buyer'[b].pc = p
         /\ buyer'[b].items = buyer[b].items
         /\ buyer'[b].seen = buyer[b].seen
         /\ buyer'[b].gone = buyer[b].gone
         /\ \A a \in Buyers \ {b} : buyer'[a] = buyer[a]
<1>1. buyer \in [Buyers -> Shopping \cup {Away}] /\ buyer[b] \in Shopping
  BY RequestIs DEF MarketTypeOK
<1>2. [buyer[b] EXCEPT !.pc = p] \in Shopping
  BY <1>1 DEF Shopping
<1>3. buyer' = [buyer EXCEPT ![b] = [buyer[b] EXCEPT !.pc = p]]
  BY DEF Move
<1> QED BY <1>1, <1>2, <1>3 DEF Shopping

\* A request that departs leaves the others alone.
LEMMA Departing ==
  ASSUME MarketTypeOK, NEW b \in Buyers, Depart(b)
  PROVE  /\ buyer' \in [Buyers -> Shopping \cup {Away}]
         /\ buyer'[b] = Away /\ buyer'[b].pc = "away"
         /\ \A a \in Buyers \ {b} : buyer'[a] = buyer[a]
  BY DEF MarketTypeOK, Depart, Away

\* A request that starts leaves the others alone.
LEMMA Starting ==
  ASSUME MarketTypeOK, NEW b \in Buyers, NEW items \in SUBSET Items,
         NEW p \in {"finding", "carting"}, Shop(b, p, items)
  PROVE  /\ buyer' \in [Buyers -> Shopping \cup {Away}]
         /\ buyer'[b] \in Shopping
         /\ buyer'[b].pc = p
         /\ buyer'[b].items = items
         /\ buyer'[b].seen = balance
         /\ \A a \in Buyers \ {b} : buyer'[a] = buyer[a]
<1>1. [pc |-> p, items |-> items, seen |-> balance, gone |-> {}] \in Shopping
  BY DEF Shopping, MarketTypeOK
<1> QED BY <1>1 DEF Shop, MarketTypeOK

\* A request that reads the cart, and finds something it can pay for.
LEMMA Reading ==
  ASSUME MarketTypeOK, NEW b \in Buyers, ReadCart(b), ~Depart(b)
  PROVE  /\ buyer' \in [Buyers -> Shopping \cup {Away}]
         /\ buyer'[b] \in Shopping
         /\ buyer'[b].pc = "connecting"
         /\ buyer'[b].items = cart \cap active
         /\ buyer'[b].seen = buyer[b].seen
         /\ \A a \in Buyers \ {b} : buyer'[a] = buyer[a]
         /\ buyer[b].seen >= Cardinality(cart \cap active)
<1> DEFINE r == [buyer[b] EXCEPT !.pc = "connecting", !.items = cart \cap active]
<1>1. buyer[b] \in Shopping /\ cart \cap active \in SUBSET Items
  BY RequestIs DEF ReadCart, Away, MarketTypeOK
<1>2. /\ r.pc = "connecting" /\ r.items = cart \cap active
      /\ r.seen = buyer[b].seen
      /\ r \in Shopping
  BY <1>1 DEF Shopping
<1>3. buyer' = [buyer EXCEPT ![b] = r]
  BY DEF ReadCart, MarketTypeOK
<1> HIDE DEF r
<1> QED BY <1>1, <1>2, <1>3 DEF ReadCart, MarketTypeOK

\* A checkout that reads the balance through another connection.
LEMMA Looking ==
  ASSUME MarketTypeOK, NEW b \in Buyers, ReadBalance(b)
  PROVE  /\ buyer' \in [Buyers -> Shopping \cup {Away}]
         /\ buyer'[b] \in Shopping
         /\ buyer'[b].pc = "deducting"
         /\ buyer'[b].items = buyer[b].items
         /\ buyer'[b].seen = balance
         /\ \A a \in Buyers \ {b} : buyer'[a] = buyer[a]
<1> DEFINE r == [buyer[b] EXCEPT !.pc = "deducting", !.seen = balance]
<1>1. buyer[b] \in Shopping /\ balance \in Int
  BY RequestIs DEF ReadBalance, Away, MarketTypeOK
<1>2. /\ r.pc = "deducting" /\ r.items = buyer[b].items /\ r.seen = balance
      /\ r \in Shopping
  BY <1>1 DEF Shopping, InTransaction, HasPaid
<1>3. buyer' = [buyer EXCEPT ![b] = r]
  BY DEF ReadBalance, MarketTypeOK
<1> HIDE DEF r
<1> QED BY <1>1, <1>2, <1>3 DEF MarketTypeOK

\* A checkout that deletes the lines it bought from the cart.
LEMMA Emptying ==
  ASSUME MarketTypeOK, NEW b \in Buyers, DeleteCartItems(b)
  PROVE  /\ buyer' \in [Buyers -> Shopping \cup {Away}]
         /\ buyer'[b] \in Shopping
         /\ buyer'[b].pc = "collecting"
         /\ buyer'[b].items = buyer[b].items
         /\ buyer'[b].seen = buyer[b].seen
         /\ buyer'[b].gone = buyer[b].items \cap cart
         /\ \A a \in Buyers \ {b} : buyer'[a] = buyer[a]
<1> DEFINE lines == buyer[b].items \cap cart
           r == [buyer[b] EXCEPT !.pc = "collecting", !.gone = lines]
<1>1. buyer[b] \in Shopping /\ lines \in SUBSET Items
  BY RequestIs DEF DeleteCartItems, Away, MarketTypeOK
<1>2. buyer' = [buyer EXCEPT ![b] = r]
  BY DEF DeleteCartItems, MarketTypeOK
<1> HIDE DEF lines
<1>3. /\ r.pc = "collecting" /\ r.items = buyer[b].items
      /\ r.seen = buyer[b].seen /\ r.gone = lines
      /\ r \in Shopping
  BY <1>1 DEF Shopping, InTransaction, HasPaid
<1> HIDE DEF r
<1>4. buyer'[b] = r /\ buyer' \in [Buyers -> Shopping \cup {Away}]
  BY <1>2, <1>3 DEF MarketTypeOK
<1> QED BY <1>2, <1>3, <1>4 DEF MarketTypeOK, lines

-----------------------------------------------------------------------------
(* The steps, by what they do to the connections                           *)

\* Before the transaction ...
Browsing(b) ==
    \/ Checkout(b) \/ \E i \in Items : AddCartItem(b, i)
    \/ FindCartItem(b) \/ InsertCartItem(b) \/ ReadCart(b)

\* ... within it ...
Buying(b) ==
    \/ CreateOrder(b) \/ CreatePayment(b) \/ ReadBalance(b) \/ DeductPayment(b)
    \/ DeleteCartItems(b) \/ SaveItemCollection(b)

\* ... and without a request.
Elsewhere ==
    \/ \E items \in SUBSET Items : DeleteFromCart(items)
    \/ \E i \in Items : UpdateAvatar(i)
    \/ UNCHANGED marketVars

\* The connection and the requests besides the one that takes the step.
Others(b) == \A a \in Buyers \ {b} : buyer'[a] = buyer[a]
Typed     == buyer' \in [Buyers -> Shopping \cup {Away}]

\* Every step is one of these.
LEMMA Steps ==
  ASSUME MarketTypeOK, [MarketNext]_marketVars
  PROVE  \/ \E b \in Buyers :
              Browsing(b) \/ Connect(b) \/ Buying(b) \/ Commit(b) \/ Refuse(b)
         \/ Elsewhere
<1>1. ASSUME NEW items \in {{i} : i \in Items} \cup {cart}, DeleteFromCart(items)
      PROVE  items \in SUBSET Items
  BY <1>1 DEF MarketTypeOK
<1> QED BY <1>1 DEF MarketNext, Trade, Browsing, Buying, Elsewhere

\* Before the transaction, a request changes itself and the cart.
LEMMA BrowsingIs ==
  ASSUME MarketTypeOK, NEW b \in Buyers, Browsing(b)
  PROVE  /\ Typed /\ Others(b)
         /\ ~Trades(b) /\ ~Trades(b)'
         /\ cart' \in SUBSET Items
         /\ UNCHANGED <<active, owned, orders, payments, balance, free, faults>>
         /\ starts' \in Nat /\ overlapped' \in BOOLEAN
<1>1. ASSUME NEW p \in {"finding", "carting"}, NEW items \in SUBSET Items,
             Shop(b, p, items)
      PROVE  /\ Typed /\ Others(b)
             /\ ~Trades(b) /\ ~Trades(b)'
             /\ cart' \in SUBSET Items
             /\ UNCHANGED <<active, owned, orders, payments, balance, free, faults>>
             /\ starts' \in Nat /\ overlapped' \in BOOLEAN
  <2>1. Typed /\ Others(b) /\ buyer'[b].pc = p
    BY <1>1, Starting DEF Typed, Others
  <2>2. ~Trades(b) /\ ~Trades(b)'
    BY <1>1, <2>1 DEF Shop, Away, Trades, InTransaction, HasPaid
  <2>3. overlapped' \in BOOLEAN
    BY <1>1 DEF Shop
  <2>4. /\ UNCHANGED <<active, cart, owned, orders, payments, balance, free, faults>>
        /\ starts' = starts + 1
    BY <1>1 DEF Shop
  <2> QED BY <2>1, <2>2, <2>3, <2>4 DEF MarketTypeOK
<1>2. ASSUME Checkout(b) \/ \E i \in Items : AddCartItem(b, i)
      PROVE  \E p \in {"finding", "carting"}, items \in SUBSET Items : Shop(b, p, items)
  <2>1. ASSUME NEW i \in Items, AddCartItem(b, i)
        PROVE  Shop(b, "finding", {i}) /\ {i} \in SUBSET Items
    BY <2>1 DEF AddCartItem
  <2>2. ASSUME Checkout(b) PROVE Shop(b, "carting", {})
    BY <2>2 DEF Checkout
  <2> QED BY <1>2, <2>1, <2>2
<1>3. CASE FindCartItem(b)
  <2>1. buyer[b] # Away /\ ~Trades(b) /\ UNCHANGED cart
    BY <1>3 DEF FindCartItem, Away, Trades, InTransaction, HasPaid
  <2>2. CASE Depart(b)
    BY <1>3, <2>1, <2>2, Departing DEF FindCartItem, SameShop, Typed, Others, Trades,
       InTransaction, HasPaid, MarketTypeOK
  <2>3. CASE Move(b, "adding")
    BY <1>3, <2>1, <2>3, Moving DEF FindCartItem, SameShop, Typed, Others, Trades,
       InTransaction, HasPaid, MarketTypeOK
  <2> QED BY <1>3, <2>2, <2>3 DEF FindCartItem
<1>4. CASE InsertCartItem(b)
  <2>1. buyer[b] # Away /\ ~Trades(b)
    BY <1>4 DEF InsertCartItem, Away, Trades, InTransaction, HasPaid
  <2>2. cart' \in SUBSET Items
    BY <1>4, <2>1, RequestIs DEF InsertCartItem, Shopping, MarketTypeOK
  <2> QED
    BY <1>4, <2>1, <2>2, Departing DEF InsertCartItem, SameShop, Typed, Others, Trades,
       InTransaction, HasPaid, MarketTypeOK
<1>5. CASE ReadCart(b)
  <2>1. buyer[b] # Away /\ ~Trades(b) /\ UNCHANGED cart
    BY <1>5 DEF ReadCart, Away, Trades, InTransaction, HasPaid
  <2>2. CASE Depart(b)
    BY <1>5, <2>1, <2>2, Departing DEF ReadCart, SameShop, Typed, Others, Trades,
       InTransaction, HasPaid, MarketTypeOK
  <2>3. CASE ~Depart(b)
    BY <1>5, <2>1, <2>3, Reading DEF ReadCart, SameShop, Typed, Others, Trades,
       InTransaction, HasPaid, MarketTypeOK
  <2> QED BY <2>2, <2>3
<1> QED BY <1>1, <1>2, <1>3, <1>4, <1>5 DEF Browsing

Committed == <<active, cart, owned, orders, payments, balance>>

\* Within the transaction, it keeps its items; nothing is committed, and the
\* balance it holds was read in this very step or before.
Dealing   == {"deducting", "emptying", "collecting", "committing"}
Deleting  == {"collecting", "committing"}

LEMMA BuyingIs ==
  ASSUME MarketTypeOK, NEW b \in Buyers, Buying(b)
  PROVE  /\ Typed /\ Others(b)
         /\ buyer[b].pc \in InTransaction /\ buyer'[b].pc \in InTransaction
         /\ UNCHANGED <<Committed, free, overlapped, starts, faults>>
         /\ buyer'[b].items = buyer[b].items
         /\ buyer'[b].seen \in {buyer[b].seen, balance}
         /\ buyer'[b].pc \in HasPaid => buyer[b].pc \in HasPaid \/ ~ViewLocked
         /\ buyer'[b].pc \in Dealing =>
              \/ buyer[b].pc \in Dealing /\ buyer'[b].seen = buyer[b].seen
              \/ buyer'[b].seen = balance
         /\ buyer'[b].pc \in Deleting =>
              \/ buyer[b].pc \in Deleting /\ buyer'[b].gone = buyer[b].gone
              \/ buyer'[b].gone = buyer[b].items \cap cart
<1>1. CASE CreateOrder(b)
  BY <1>1, Moving DEF CreateOrder, Typed, Others, InTransaction, HasPaid, Committed,
     SameShop, Dealing, Deleting, Away
<1>2. CASE CreatePayment(b)
  BY <1>2, Moving DEF CreatePayment, Typed, Others, InTransaction, HasPaid, Committed,
     SameShop, Dealing, Deleting, Away
<1>3. CASE ReadBalance(b)
  BY <1>3, Looking DEF ReadBalance, Typed, Others, InTransaction, HasPaid, Committed,
     SameShop, Dealing, Deleting, Away
<1>4. CASE DeductPayment(b)
  BY <1>4, Moving DEF DeductPayment, Typed, Others, InTransaction, HasPaid, Committed,
     SameShop, Dealing, Deleting, Away
<1>5. CASE DeleteCartItems(b)
  BY <1>5, Emptying DEF DeleteCartItems, Typed, Others, InTransaction, HasPaid, Committed,
     SameShop, Dealing, Deleting, Away
<1>6. CASE SaveItemCollection(b)
  BY <1>6, Moving DEF SaveItemCollection, Typed, Others, InTransaction, HasPaid, Committed,
     SameShop, Dealing, Deleting, Away
<1> QED BY <1>1, <1>2, <1>3, <1>4, <1>5, <1>6 DEF Buying

\* A transaction ends by letting go of its connection.
LEMMA EndingIs ==
  ASSUME MarketTypeOK, NEW b \in Buyers, Commit(b) \/ Refuse(b)
  PROVE  /\ Typed /\ Others(b)
         /\ Trades(b) /\ buyer[b] \in Shopping
         /\ buyer'[b] = Away /\ buyer'[b].pc = "away"
         /\ free' = free + 1
         /\ UNCHANGED <<active, overlapped, starts>>
         /\ Refuse(b) => UNCHANGED Committed /\ faults' = faults + 1
         /\ Commit(b) => UNCHANGED faults
<1>1. Depart(b) /\ free' = free + 1
  BY DEF Commit, Refuse, Rollback
<1>2. Trades(b)
  BY DEF Commit, Refuse, Trades, InTransaction, HasPaid
<1> QED BY <1>1, <1>2, RequestIs, Departing DEF Commit, Refuse, Typed, Others, Committed

-----------------------------------------------------------------------------
(* The connections                                                         *)

\* The number of transactions follows the request that starts or ends one.
LEMMA TransactionsCounted ==
  ASSUME NEW b \in Buyers, Others(b)
  PROVE  LET n == Cardinality({a \in Buyers : Trades(a)})
             m == Cardinality({a \in Buyers : Trades(a)'})
         IN  /\ n \in Nat /\ m \in Nat
             /\ (Trades(b) <=> Trades(b)') => m = n
             /\ ~Trades(b) /\ Trades(b)' => m = n + 1
             /\ Trades(b) /\ ~Trades(b)' => m = n - 1
<1> DEFINE S == {a \in Buyers : Trades(a)}
           T == {a \in Buyers : Trades(a)'}
<1>1. IsFiniteSet(S) /\ IsFiniteSet(T)
  BY BuyersAssumption, FS_Subset
<1>2. Cardinality(S) \in Nat /\ Cardinality(T) \in Nat
  BY <1>1, FS_CardinalityType
<1>3. \A a \in Buyers \ {b} : Trades(a) <=> Trades(a)'
  BY DEF Others, Trades
<1>4. (Trades(b) <=> Trades(b)') => T = S
  BY <1>3
<1>5. ~Trades(b) /\ Trades(b)' => T = S \cup {b} /\ b \notin S
  BY <1>3
<1>6. Trades(b) /\ ~Trades(b)' => T = S \ {b} /\ b \in S
  BY <1>3
<1> HIDE DEF S, T
<1>7. b \notin S => Cardinality(S \cup {b}) = Cardinality(S) + 1
  BY <1>1, FS_AddElement
<1>8. b \in S => Cardinality(S \ {b}) = Cardinality(S) - 1
  BY <1>1, FS_RemoveElement
<1> QED BY <1>2, <1>4, <1>5, <1>6, <1>7, <1>8 DEF S, T

\* Every checkout lets go of its connection, whether it commits or fails.
LEMMA StepReturnsConnections ==
  ASSUME MarketTypeOK, ConnectionsReturned, [MarketNext]_marketVars
  PROVE  ConnectionsReturned' /\ free' \in 0..Connections
<1> DEFINE n == Cardinality({a \in Buyers : Trades(a)})
           m == Cardinality({a \in Buyers : Trades(a)'})
<1> SUFFICES free' = Connections - m /\ free' \in 0..Connections
  BY DEF ConnectionsReturned
<1>1. free = Connections - n /\ free \in 0..Connections /\ Connections \in Nat
  BY PoolAssumption DEF ConnectionsReturned, MarketTypeOK
<1>2. ASSUME NEW b \in Buyers, Browsing(b) \/ Buying(b)
      PROVE  free' = Connections - m /\ free' \in 0..Connections
  <2>1. Others(b) /\ free' = free /\ (Trades(b) <=> Trades(b)')
    BY <1>2, BrowsingIs, BuyingIs DEF Trades
  <2> QED BY <1>1, <2>1, TransactionsCounted
<1>3. ASSUME NEW b \in Buyers, Connect(b)
      PROVE  free' = Connections - m /\ free' \in 0..Connections
  <2>1. Others(b) /\ ~Trades(b) /\ Trades(b)'
    BY <1>3, Moving DEF Connect, Others, Trades, InTransaction, HasPaid, Away
  <2>2. free' = free - 1 /\ free > 0
    BY <1>3 DEF Connect
  <2>3. m = n + 1 /\ n \in Nat /\ m \in Nat
    BY <2>1, TransactionsCounted
  <2> HIDE DEF n, m
  <2> QED BY <1>1, <2>2, <2>3
<1>4. ASSUME NEW b \in Buyers, Commit(b) \/ Refuse(b)
      PROVE  free' = Connections - m /\ free' \in 0..Connections
  <2>1. Others(b) /\ Trades(b) /\ ~Trades(b)' /\ free' = free + 1
    BY <1>4, EndingIs DEF Trades, InTransaction, HasPaid
  <2>2. m = n - 1 /\ n \in Nat /\ m \in Nat
    BY <2>1, TransactionsCounted
  <2> HIDE DEF n, m
  <2> QED BY <1>1, <2>1, <2>2
<1>5. ASSUME Elsewhere
      PROVE  free' = Connections - m /\ free' \in 0..Connections
  <2>1. UNCHANGED <<buyer, free>>
    BY <1>5 DEF Elsewhere, DeleteFromCart, UpdateAvatar, marketVars
  <2>2. m = n
    BY <2>1 DEF Trades
  <2> HIDE DEF n, m
  <2> QED BY <1>1, <2>1, <2>2
<1> HIDE DEF m
<1> QED BY <1>2, <1>3, <1>4, <1>5, Steps

-----------------------------------------------------------------------------
(* Types                                                                   *)

\* What a commit writes.
LEMMA CommitWrites ==
  ASSUME MarketTypeOK, NEW b \in Buyers, Commit(b)
  PROVE  /\ orders' \in [Items -> Nat]
         /\ \A i \in Items : orders'[i] = orders[i] + IF i \in buyer[b].items THEN 1 ELSE 0
         /\ payments' = payments + Cardinality(buyer[b].items)
         /\ balance' = buyer[b].seen - Cardinality(buyer[b].items)
         /\ payments' \in Nat /\ balance' \in Int
         /\ cart' = cart \ buyer[b].gone
         /\ owned' = owned \cup buyer[b].items
         /\ buyer[b].items \in SUBSET Items
         /\ Cardinality(buyer[b].items) \in Nat
<1>1. buyer[b] \in Shopping
  BY EndingIs
<1>2. buyer[b].items \in SUBSET Items /\ buyer[b].seen \in Int
  BY <1>1 DEF Shopping
<1>3. Cardinality(buyer[b].items) \in Nat
  BY <1>2, ItemsAreCounted
<1>4. orders' = [i \in Items |-> orders[i] + IF i \in buyer[b].items THEN 1 ELSE 0]
  BY DEF Commit, Paid
<1>5. orders' \in [Items -> Nat]
  BY <1>4 DEF MarketTypeOK
<1> QED BY <1>2, <1>3, <1>4, <1>5 DEF Commit, Charged, Price, MarketTypeOK

\* The types survive every step.
LEMMA StepTypeOK ==
  ASSUME MarketTypeOK, ConnectionsReturned, [MarketNext]_marketVars
  PROVE  MarketTypeOK'
<1>0. free' \in 0..Connections
  BY StepReturnsConnections
<1>1. ASSUME NEW b \in Buyers, Browsing(b)
      PROVE  MarketTypeOK'
  BY <1>0, <1>1, BrowsingIs DEF Typed, MarketTypeOK
<1>2. ASSUME NEW b \in Buyers, Connect(b)
      PROVE  MarketTypeOK'
  <2>1. Typed
    BY <1>2, Moving DEF Connect, Typed, InTransaction, Away
  <2> QED BY <1>0, <1>2, <2>1 DEF Connect, SameShop, Typed, MarketTypeOK
<1>3. ASSUME NEW b \in Buyers, Buying(b)
      PROVE  MarketTypeOK'
  BY <1>0, <1>3, BuyingIs DEF Committed, Typed, MarketTypeOK
<1>4. ASSUME NEW b \in Buyers, Commit(b)
      PROVE  MarketTypeOK'
  BY <1>0, <1>4, EndingIs, CommitWrites DEF Typed, MarketTypeOK
<1>5. ASSUME NEW b \in Buyers, Refuse(b)
      PROVE  MarketTypeOK'
  BY <1>0, <1>5, EndingIs DEF Committed, Typed, MarketTypeOK
<1>6. ASSUME Elsewhere
      PROVE  MarketTypeOK'
  <2>1. ASSUME NEW items \in SUBSET Items, DeleteFromCart(items)
        PROVE  MarketTypeOK'
    BY <1>0, <2>1 DEF DeleteFromCart, SameShop, MarketTypeOK
  <2>2. ASSUME NEW i \in Items, UpdateAvatar(i)
        PROVE  MarketTypeOK'
    BY <1>0, <2>2 DEF UpdateAvatar, MarketTypeOK
  <2>3. ASSUME UNCHANGED marketVars
        PROVE  MarketTypeOK'
    BY <2>3 DEF marketVars, MarketTypeOK
  <2> QED BY <1>6, <2>1, <2>2, <2>3 DEF Elsewhere
<1> QED BY <1>1, <1>2, <1>3, <1>4, <1>5, <1>6, Steps

-----------------------------------------------------------------------------
(* The wallet                                                              *)

\* The strengthening that makes ChargedExactly inductive: a checkout that has
\* read the balance holds the current one, because nobody else pays while it
\* keeps the view locked.
Current == \A b \in Buyers : buyer[b].pc \in Dealing => buyer[b].seen = balance

\* A step that is no commit leaves the balance alone, and a request that deals
\* after it did so before, or has just read the balance.
LEMMA StepKeepsWallet ==
  ASSUME MarketTypeOK, OnePays, Current, ChargedExactly, [MarketNext]_marketVars
  PROVE  OnePays' /\ Current' /\ ChargedExactly'
<1> USE DEF OnePays, Current, ChargedExactly
<1>1. ASSUME NEW b \in Buyers, Browsing(b)
      PROVE  OnePays' /\ Current' /\ ChargedExactly'
  BY <1>1, BrowsingIs DEF Others, Trades, InTransaction, HasPaid, Dealing
<1>2. ASSUME NEW b \in Buyers, Connect(b)
      PROVE  OnePays' /\ Current' /\ ChargedExactly'
  <2>1. Others(b) /\ buyer'[b].pc = "ordering"
    BY <1>2, Moving DEF Connect, Others, InTransaction, Away
  <2> QED BY <1>2, <2>1 DEF Connect, SameShop, Others, HasPaid, Dealing
<1>3. ASSUME NEW b \in Buyers, Buying(b)
      PROVE  OnePays' /\ Current' /\ ChargedExactly'
  <2>1. /\ Others(b) /\ UNCHANGED <<payments, balance>>
        /\ buyer'[b].pc \in HasPaid => buyer[b].pc \in HasPaid \/ ~ViewLocked
        /\ buyer'[b].pc \in Dealing =>
             \/ buyer[b].pc \in Dealing /\ buyer'[b].seen = buyer[b].seen
             \/ buyer'[b].seen = balance
    BY <1>3, BuyingIs DEF Committed
  <2>2. OnePays'
    BY <2>1 DEF Others, ViewLocked
  <2>3. Current' /\ ChargedExactly'
    BY <2>1 DEF Others
  <2> QED BY <2>2, <2>3
<1>4. ASSUME NEW b \in Buyers, Commit(b)
      PROVE  OnePays' /\ Current' /\ ChargedExactly'
  <2>1. /\ Others(b) /\ buyer'[b].pc = "away"
        /\ buyer[b].pc \in HasPaid /\ buyer[b].seen = balance
    BY <1>4, EndingIs DEF Commit, HasPaid, Dealing
  <2>2. \A a \in Buyers : buyer'[a].pc \notin HasPaid
    BY <2>1 DEF Others, HasPaid
  <2>3. Dealing \subseteq HasPaid
    BY DEF Dealing, HasPaid
  <2>4. ChargedExactly'
    BY <1>4, <2>1, CommitWrites, MarketBounds DEF MarketTypeOK
  <2> QED BY <2>2, <2>3, <2>4
<1>5. ASSUME NEW b \in Buyers, Refuse(b)
      PROVE  OnePays' /\ Current' /\ ChargedExactly'
  BY <1>5, EndingIs DEF Others, Committed, HasPaid, Dealing
<1>6. ASSUME Elsewhere
      PROVE  OnePays' /\ Current' /\ ChargedExactly'
  BY <1>6 DEF Elsewhere, DeleteFromCart, SameShop, UpdateAvatar, marketVars
<1> QED BY <1>1, <1>2, <1>3, <1>4, <1>5, <1>6, Steps

\* The collection grows by what the orders get, and only then.
LEMMA StepKeepsOrders ==
  ASSUME MarketTypeOK, OwnedIsOrdered, [MarketNext]_marketVars
  PROVE  OwnedIsOrdered'
<1> USE DEF OwnedIsOrdered
<1>1. ASSUME NEW b \in Buyers, Browsing(b) \/ Connect(b) \/ Buying(b) \/ Refuse(b)
      PROVE  UNCHANGED <<owned, orders>>
  BY <1>1, BrowsingIs, BuyingIs, EndingIs DEF Connect, SameShop, Committed
<1>2. ASSUME NEW b \in Buyers, Commit(b)
      PROVE  OwnedIsOrdered'
  BY <1>2, CommitWrites DEF MarketTypeOK
<1>3. ASSUME Elsewhere
      PROVE  UNCHANGED <<owned, orders>>
  BY <1>3 DEF Elsewhere, DeleteFromCart, SameShop, UpdateAvatar, marketVars
<1> QED BY <1>1, <1>2, <1>3, Steps

-----------------------------------------------------------------------------
(* Requests that do not overlap                                            *)

\* The request of a user who sends one at a time holds nothing that is bought,
\* has seen the balance as it is, and can pay from it; the lines it has deleted
\* are those of its items.
Fits(b) ==
    /\ buyer[b].items \cap owned = {}
    /\ buyer[b].seen = balance
    /\ buyer[b].pc \in {"connecting"} \cup InTransaction =>
           Cardinality(buyer[b].items) <= balance
    /\ buyer[b].pc \in Deleting => buyer[b].gone = buyer[b].items \cap cart

\* The strengthening that makes BoughtOnceAlone inductive.
AloneInv ==
    ~overlapped =>
        /\ \A a, b \in Buyers : buyer[a] # Away /\ buyer[b] # Away => a = b
        /\ cart \cap owned = {}
        /\ balance >= 0
        /\ \A i \in Items : orders[i] <= 1
        /\ \A b \in Buyers : buyer[b] # Away => Fits(b)

\* A step of the only request that is about keeps all of it, when the step
\* changes no more than the request and keeps what the request fits.
LEMMA AloneMoves ==
  ASSUME MarketTypeOK, AloneInv, NEW b \in Buyers, Others(b), buyer[b] # Away,
         UNCHANGED <<owned, orders, balance, overlapped>>,
         ~overlapped => cart' \cap owned = {},
         ~overlapped /\ buyer'[b] # Away => Fits(b)'
  PROVE  AloneInv'
<1> SUFFICES ASSUME ~overlapped' PROVE AloneInv!2'
  BY DEF AloneInv
<1>1. AloneInv!2
  BY DEF AloneInv
<1>2. \A a \in Buyers \ {b} : buyer[a] = Away /\ buyer'[a] = Away
  BY <1>1 DEF Others
<1> QED BY <1>1, <1>2

\* Starting a request that overlaps no other.
LEMMA AloneStarts ==
  ASSUME MarketTypeOK, AloneInv, NEW b \in Buyers, NEW p \in {"finding", "carting"},
         NEW items \in SUBSET Items, items \cap owned = {}, Shop(b, p, items)
  PROVE  AloneInv'
<1>1. /\ Others(b) /\ buyer'[b].items = items /\ buyer'[b].seen = balance
      /\ buyer'[b].pc = p
  BY Starting DEF Others
<1>2. /\ UNCHANGED <<cart, owned, orders, balance>>
      /\ overlapped' = (overlapped \/ \E a \in Buyers \ {b} : buyer[a] # Away)
  BY DEF Shop
<1>3. Fits(b)'
  BY <1>1, <1>2 DEF Fits, InTransaction, HasPaid, Deleting
<1> SUFFICES ASSUME ~overlapped' PROVE AloneInv!2'
  BY DEF AloneInv
<1>4. ~overlapped /\ \A a \in Buyers \ {b} : buyer[a] = Away
  BY <1>2
<1>5. \A a \in Buyers \ {b} : buyer'[a] = Away
  BY <1>1, <1>4 DEF Others
<1> QED BY <1>2, <1>3, <1>4, <1>5 DEF AloneInv

\* Browsing alone.
LEMMA AloneBrowses ==
  ASSUME MarketTypeOK, AloneInv, NEW b \in Buyers, Browsing(b)
  PROVE  AloneInv'
<1>1. CASE Checkout(b)
  BY <1>1, AloneStarts DEF Checkout
<1>2. ASSUME NEW i \in Items, AddCartItem(b, i)
      PROVE  AloneInv'
  BY <1>2, AloneStarts DEF AddCartItem, NotPurchased
<1>3. CASE FindCartItem(b)
  <2>1. buyer[b] # Away /\ UNCHANGED <<cart, owned, orders, balance, overlapped>>
    BY <1>3 DEF FindCartItem, SameShop, Away
  <2>2. ~overlapped => Fits(b) /\ cart' \cap owned = {}
    BY <2>1 DEF AloneInv
  <2>3. CASE Depart(b)
    BY <2>1, <2>2, <2>3, Departing, AloneMoves DEF Others
  <2>4. CASE Move(b, "adding")
    <3>1. /\ Others(b) /\ buyer'[b].items = buyer[b].items
          /\ buyer'[b].seen = buyer[b].seen /\ buyer'[b].pc = "adding"
      BY <2>1, <2>4, Moving DEF Others
    <3>2. ~overlapped => Fits(b)'
      BY <2>1, <2>2, <3>1 DEF Fits, InTransaction, HasPaid, Deleting
    <3> QED BY <2>1, <2>2, <3>1, <3>2, AloneMoves
  <2> QED BY <1>3, <2>3, <2>4 DEF FindCartItem
<1>4. CASE InsertCartItem(b)
  <2>1. buyer[b] # Away /\ UNCHANGED <<owned, orders, balance, overlapped>>
    BY <1>4 DEF InsertCartItem, SameShop, Away
  <2>2. ~overlapped => Fits(b) /\ cart \cap owned = {}
    BY <2>1 DEF AloneInv
  <2>3. ~overlapped => cart' \cap owned = {}
    BY <1>4, <2>2 DEF InsertCartItem, Fits
  <2> QED BY <1>4, <2>1, <2>3, Departing, AloneMoves DEF InsertCartItem, Others
<1>5. CASE ReadCart(b)
  <2>1. buyer[b] # Away /\ UNCHANGED <<cart, owned, orders, balance, overlapped>>
    BY <1>5 DEF ReadCart, SameShop, Away
  <2>2. ~overlapped => Fits(b) /\ cart' \cap owned = {}
    BY <2>1 DEF AloneInv
  <2>3. CASE Depart(b)
    BY <2>1, <2>2, <2>3, Departing, AloneMoves DEF Others
  <2>4. CASE ~Depart(b)
    <3>1. /\ Others(b) /\ buyer'[b].items = cart \cap active
          /\ buyer'[b].seen = buyer[b].seen /\ buyer'[b].pc = "connecting"
          /\ buyer[b].seen >= Cardinality(cart \cap active)
      BY <1>5, <2>4, Reading DEF Others
    <3>2. Cardinality(cart \cap active) \in Nat /\ balance \in Int
      BY ItemsAreCounted DEF MarketTypeOK
    <3>3. ~overlapped => Fits(b)'
      BY <2>1, <2>2, <3>1, <3>2 DEF Fits, Deleting
    <3> QED BY <2>1, <2>2, <3>1, <3>3, AloneMoves
  <2> QED BY <2>3, <2>4
<1> QED BY <1>1, <1>2, <1>3, <1>4, <1>5 DEF Browsing

\* The transaction alone.
LEMMA AloneBuys ==
  ASSUME MarketTypeOK, AloneInv, NEW b \in Buyers, Connect(b) \/ Buying(b)
  PROVE  AloneInv'
<1>1. CASE Connect(b)
  <2>1. buyer[b] # Away /\ UNCHANGED <<cart, owned, orders, balance, overlapped>>
    BY <1>1 DEF Connect, SameShop, Away
  <2>2. ~overlapped => Fits(b) /\ cart' \cap owned = {}
    BY <2>1 DEF AloneInv
  <2>3. /\ Others(b) /\ buyer'[b].items = buyer[b].items
        /\ buyer'[b].seen = buyer[b].seen /\ buyer'[b].pc = "ordering"
    BY <1>1, <2>1, Moving DEF Connect, Others, InTransaction
  <2>4. ~overlapped => Fits(b)'
    BY <1>1, <2>1, <2>2, <2>3 DEF Connect, Fits, Deleting
  <2> QED BY <2>1, <2>2, <2>3, <2>4, AloneMoves
<1>2. CASE Buying(b)
  <2>1. /\ buyer[b].pc \in InTransaction /\ buyer'[b].pc \in InTransaction
        /\ Others(b) /\ UNCHANGED <<Committed, overlapped>>
        /\ buyer'[b].items = buyer[b].items
        /\ buyer'[b].seen \in {buyer[b].seen, balance}
        /\ buyer'[b].pc \in Deleting =>
              \/ buyer[b].pc \in Deleting /\ buyer'[b].gone = buyer[b].gone
              \/ buyer'[b].gone = buyer[b].items \cap cart
    BY <1>2, BuyingIs
  <2>2. buyer[b] # Away /\ UNCHANGED <<cart, owned, orders, balance, overlapped>>
    BY <2>1 DEF Committed, Away, InTransaction, HasPaid
  <2>3. ~overlapped => Fits(b) /\ cart' \cap owned = {}
    BY <2>2 DEF AloneInv
  <2>4. ~overlapped => Fits(b)'
    BY <2>1, <2>2, <2>3 DEF Fits
  <2> QED BY <2>1, <2>2, <2>3, <2>4, AloneMoves
<1> QED BY <1>1, <1>2

\* Requests that do not overlap buy every item once and never overdraw.
LEMMA StepAlone ==
  ASSUME MarketTypeOK, OwnedIsOrdered, AloneInv, [MarketNext]_marketVars
  PROVE  AloneInv'
<1>1. ASSUME NEW b \in Buyers, Browsing(b) \/ Connect(b) \/ Buying(b)
      PROVE  AloneInv'
  BY <1>1, AloneBrowses, AloneBuys
<1>2. ASSUME NEW b \in Buyers, Refuse(b)
      PROVE  AloneInv'
  <2>1. buyer[b] # Away
    BY <1>2, EndingIs, RequestIs
  <2>2. /\ Others(b) /\ buyer'[b] = Away
        /\ UNCHANGED <<cart, owned, orders, balance, overlapped>>
    BY <1>2, EndingIs DEF Committed
  <2> QED BY <2>1, <2>2, AloneMoves DEF AloneInv
<1>3. ASSUME NEW b \in Buyers, Commit(b)
      PROVE  AloneInv'
  <2> SUFFICES ASSUME ~overlapped' PROVE AloneInv!2'
    BY DEF AloneInv
  <2>1. /\ Others(b) /\ buyer'[b] = Away /\ ~overlapped /\ buyer[b] # Away
        /\ buyer[b].pc \in Deleting /\ buyer[b].pc \in InTransaction
    BY <1>3, EndingIs, RequestIs DEF Commit, Deleting, InTransaction, HasPaid
  <2>2. AloneInv!2 /\ Fits(b)
    BY <2>1 DEF AloneInv
  <2>3. \A a \in Buyers : buyer'[a] = Away
    BY <2>1, <2>2 DEF Others
  <2>4. /\ orders' \in [Items -> Nat]
        /\ \A i \in Items :
               orders'[i] = orders[i] + IF i \in buyer[b].items THEN 1 ELSE 0
        /\ balance' = buyer[b].seen - Cardinality(buyer[b].items)
        /\ cart' = cart \ buyer[b].gone
        /\ owned' = owned \cup buyer[b].items
        /\ Cardinality(buyer[b].items) \in Nat
    BY <1>3, CommitWrites
  <2>5. cart' \cap owned' = {}
    BY <2>1, <2>2, <2>4 DEF Fits
  <2>6. balance' >= 0
    BY <2>1, <2>2, <2>4 DEF Fits, MarketTypeOK
  <2>7. \A i \in Items : orders'[i] <= 1
    BY <2>2, <2>4 DEF Fits, OwnedIsOrdered, MarketTypeOK
  <2> QED BY <2>3, <2>5, <2>6, <2>7
<1>4. ASSUME Elsewhere
      PROVE  AloneInv'
  <2>1. UNCHANGED <<buyer, owned, orders, balance, overlapped>>
    BY <1>4 DEF Elsewhere, DeleteFromCart, SameShop, UpdateAvatar, marketVars
  <2>2. cart' \subseteq cart
    BY <1>4 DEF Elsewhere, DeleteFromCart, UpdateAvatar, marketVars
  <2>3. ASSUME NEW b \in Buyers, buyer[b].pc \in Deleting
        PROVE  buyer[b].gone \cap cart' = buyer[b].gone \cap cart
    <3>1. Trades(b)
      BY <2>3 DEF Trades, Deleting, InTransaction, HasPaid
    <3> QED
      BY <1>4, <3>1 DEF Elsewhere, DeleteFromCart, Deleted, UpdateAvatar, marketVars
  <2>4. ASSUME NEW b \in Buyers, Fits(b)
        PROVE  Fits(b)'
    BY <2>1, <2>2, <2>3, <2>4 DEF Fits
  <2> QED BY <2>1, <2>2, <2>4 DEF AloneInv
<1> QED BY <1>1, <1>2, <1>3, <1>4, Steps

-----------------------------------------------------------------------------
(* The theorems                                                            *)

MarketInv ==
    /\ MarketTypeOK /\ ConnectionsReturned
    /\ OnePays /\ Current /\ ChargedExactly
    /\ OwnedIsOrdered /\ AloneInv

LEMMA InitMarketInv == MarketInit => MarketInv
<1> SUFFICES ASSUME MarketInit PROVE MarketInv
  OBVIOUS
<1>1. MarketTypeOK
  <2>1. buyer \in [Buyers -> Shopping \cup {Away}]
    BY DEF MarketInit
  <2>2. overlapped \in BOOLEAN
    BY DEF MarketInit
  <2>3. /\ active \subseteq Items /\ cart \subseteq Items /\ owned \subseteq Items
        /\ orders \in [Items -> Nat]
        /\ payments \in Nat /\ balance \in Int /\ free \in 0..Connections
        /\ starts \in Nat /\ faults \in Nat
    BY MarketBounds, PoolAssumption DEF MarketInit
  <2> QED BY <2>1, <2>2, <2>3 DEF MarketTypeOK
<1>2. \A b \in Buyers : buyer[b] = Away /\ buyer[b].pc = "away"
  BY DEF MarketInit, Away
<1>3. ConnectionsReturned
  <2>1. {b \in Buyers : Trades(b)} = {}
    BY <1>2 DEF Trades, InTransaction, HasPaid
  <2> QED BY <2>1, FS_EmptySet, PoolAssumption DEF ConnectionsReturned, MarketInit
<1>4. OnePays /\ Current /\ ChargedExactly
  BY <1>2, MarketBounds DEF OnePays, Current, ChargedExactly, HasPaid, Dealing, MarketInit
<1>5. OwnedIsOrdered
  BY DEF OwnedIsOrdered, MarketInit
<1>6. AloneInv
  BY <1>2, MarketBounds DEF AloneInv, MarketInit
<1> QED BY <1>1, <1>3, <1>4, <1>5, <1>6 DEF MarketInv

\* The inductive invariant of the marketplace.
THEOREM MarketInvariant == MarketSpec => []MarketInv
<1>1. MarketInv /\ [MarketNext]_marketVars => MarketInv'
  BY StepReturnsConnections, StepTypeOK, StepKeepsWallet, StepKeepsOrders, StepAlone
     DEF MarketInv
<1> QED BY InitMarketInv, <1>1, PTL DEF MarketSpec

\* For every number of concurrent checkouts and every failure, the wallet loses
\* exactly what the committed orders cost.
THEOREM MarketChargedExactly == MarketSpec => []ChargedExactly
<1>1. MarketInv => ChargedExactly
  BY DEF MarketInv
<1> QED BY MarketInvariant, <1>1, PTL

\* Carts, orders, wallets, collections and connections fit together, for every cart,
\* every pool and every number of concurrent requests.
THEOREM MarketPurchasesSound == MarketSpec => []PurchasesSound
<1>1. MarketInv => BoughtOnceAlone
  BY DEF MarketInv, AloneInv, BoughtOnceAlone
<1>2. MarketInv => PurchasesSound
  BY <1>1 DEF MarketInv, PurchasesSound
<1> QED BY MarketInvariant, <1>2, PTL

\* What is bought, out of the cart and held by no request is never put back or
\* ordered again, however many requests there are.
THEOREM MarketSettledForGood == MarketSpec => SettledForGood
<1>1. ASSUME MarketTypeOK, [MarketNext]_marketVars, NEW i \in Items, Settled(i)
      PROVE  Settled(i)' /\ orders'[i] = orders[i]
  <2> USE <1>1
  <2>1. ASSUME NEW b \in Buyers, Browsing(b)
        PROVE  Settled(i)' /\ orders'[i] = orders[i]
    <3>1. Others(b) /\ UNCHANGED <<owned, orders>>
      BY <2>1, BrowsingIs
    <3>2. i \notin cart' /\ (buyer'[b] # Away => i \notin buyer'[b].items)
      <4>1. CASE Checkout(b)
        BY <4>1, Starting DEF Checkout, Settled, Shop
      <4>2. ASSUME NEW j \in Items, AddCartItem(b, j)
            PROVE  i \notin cart' /\ (buyer'[b] # Away => i \notin buyer'[b].items)
        BY <4>2, Starting DEF AddCartItem, NotPurchased, Settled, Shop
      <4>3. CASE FindCartItem(b)
        <5>1. buyer[b] # Away /\ UNCHANGED cart
          BY <4>3 DEF FindCartItem, Away
        <5> QED BY <4>3, <5>1, Departing, Moving DEF FindCartItem, Settled
      <4>4. CASE InsertCartItem(b)
        <5>1. buyer[b] # Away
          BY <4>4 DEF InsertCartItem, Away
        <5> QED BY <4>4, <5>1, Departing DEF InsertCartItem, Settled
      <4>5. CASE ReadCart(b)
        <5>1. UNCHANGED cart
          BY <4>5 DEF ReadCart
        <5> QED BY <4>5, <5>1, Departing, Reading DEF Settled
      <4> QED BY <2>1, <4>1, <4>2, <4>3, <4>4, <4>5 DEF Browsing
    <3> QED BY <3>1, <3>2 DEF Settled, Others
  <2>2. ASSUME NEW b \in Buyers, Connect(b)
        PROVE  Settled(i)' /\ orders'[i] = orders[i]
    <3>1. buyer[b] # Away /\ UNCHANGED <<cart, owned, orders>>
      BY <2>2 DEF Connect, SameShop, Away
    <3>2. Others(b) /\ buyer'[b].items = buyer[b].items
      BY <2>2, <3>1, Moving DEF Connect, Others, InTransaction
    <3> QED BY <3>1, <3>2 DEF Settled, Others
  <2>3. ASSUME NEW b \in Buyers, Buying(b)
        PROVE  Settled(i)' /\ orders'[i] = orders[i]
    <3>1. /\ Others(b) /\ buyer'[b].items = buyer[b].items
          /\ buyer[b] # Away /\ UNCHANGED <<cart, owned, orders>>
      BY <2>3, BuyingIs DEF Committed, Away, InTransaction, HasPaid
    <3> QED BY <3>1 DEF Settled, Others
  <2>4. ASSUME NEW b \in Buyers, Commit(b)
        PROVE  Settled(i)' /\ orders'[i] = orders[i]
    <3>1. buyer[b] # Away /\ buyer'[b] = Away /\ Others(b)
      BY <2>4, EndingIs, RequestIs
    <3>2. i \notin buyer[b].items
      BY <3>1 DEF Settled
    <3>3. orders'[i] = orders[i]
      BY <2>4, <3>2, CommitWrites DEF MarketTypeOK
    <3>4. i \in owned' /\ i \notin cart'
      BY <2>4, CommitWrites DEF Settled
    <3> QED BY <3>1, <3>3, <3>4 DEF Settled, Others
  <2>5. ASSUME NEW b \in Buyers, Refuse(b)
        PROVE  Settled(i)' /\ orders'[i] = orders[i]
    BY <2>5, EndingIs DEF Settled, Others, Committed
  <2>6. ASSUME Elsewhere
        PROVE  Settled(i)' /\ orders'[i] = orders[i]
    BY <2>6 DEF Elsewhere, DeleteFromCart, SameShop, UpdateAvatar, marketVars, Settled
  <2> QED BY <2>1, <2>2, <2>3, <2>4, <2>5, <2>6, Steps
<1>2. MarketTypeOK /\ [MarketNext]_marketVars =>
        \A i \in Items : Settled(i) => Settled(i)' /\ orders'[i] = orders[i]
  BY <1>1
<1>3. MarketInv => MarketTypeOK
  BY DEF MarketInv
<1> QED BY <1>2, <1>3, MarketInvariant, PTL DEF MarketSpec, SettledForGood

-----------------------------------------------------------------------------
(* Images                                                                  *)

Workers == Clerks \cup {Cron}
Doing(h, k, p) == chore[h] # NoChore /\ chore[h].key = k /\ chore[h].pc = p

\* What a chore is about at each of its steps.
ChoreFits(h) ==
    LET k == chore[h].key
        p == chore[h].pc
        q == chore[h].kind
    IN  /\ k \in uploaded
        /\ p = "recording" =>
              /\ k \in bucket /\ k \notin medias /\ refs[k] = {}
              /\ \A g \in Workers \ {h} :
                    chore[g] # NoChore /\ chore[g].key = k => chore[g].pc = "finding"
        /\ p = "saving" => q \in Kinds
        /\ p = "removing" => q = "page" \/ (q = "register" /\ (refs[k] # {} \/ k \in dropped))
        /\ p = "forgetting" => k \notin bucket
ChoresFit ==
    /\ \A h \in Workers : chore[h] # NoChore => ChoreFits(h)
    /\ \A k \in Keys \ uploaded : refs[k] = {}

\* A row has its object, and an object its row, its user or somebody at work on it.
RowBacked(k) == k \in medias \ bucket => \E h \in Workers : Doing(h, k, "forgetting")
Accounted(k) ==
    k \in bucket => \/ k \in medias \/ refs[k] # {} \/ k \in dropped
                    \/ \E h \in Workers : Doing(h, k, "recording") \/ Doing(h, k, "saving")

\* An image that no two handle at the same time keeps its object from its use on.
InUse(k) == refs[k] \cap {"register", "page"} # {}
Kept(k) ==
    /\ \A g, h \in Handled(k) : g = h
    /\ InUse(k) =>
          /\ k \in bucket
          /\ k \in medias =>
                \E h \in Workers : Doing(h, k, "removing") /\ chore[h].kind = "register"
          /\ \A h \in Handled(k) : chore[h].pc \notin {"erasing", "forgetting"}
    /\ \A h \in Handled(k) :
          /\ chore[h].pc \in {"saving", "removing"} => k \in bucket
          /\ chore[h].pc = "saving" /\ chore[h].kind = "page" => k \notin medias

ImageFits(k) == RowBacked(k) /\ Accounted(k) /\ (k \notin raced => Kept(k))
ImagesFit == slips = 0 => \A k \in Keys : ImageFits(k)

MediaInv == MediaTypeOK /\ ChoresFit /\ ImagesFit

OnlyChore(h) ==
    /\ chore' \in [Workers -> Chore \cup {NoChore}]
    /\ \A g \in Workers \ {h} : chore'[g] = chore[g]
Turns(h, p) ==
    /\ OnlyChore(h) /\ chore[h] # NoChore /\ chore'[h] # NoChore /\ chore'[h].pc = p
    /\ chore'[h].key = chore[h].key /\ chore'[h].kind = chore[h].kind
Finishes(h) == OnlyChore(h) /\ chore[h] # NoChore /\ chore'[h] = NoChore
Arises(h, p, k, q) ==
    /\ OnlyChore(h) /\ chore[h] = NoChore /\ chore'[h] # NoChore
    /\ chore'[h].pc = p /\ chore'[h].key = k /\ chore'[h].kind = q

\* A chore has the fields of one.
LEMMA ChoreTyped ==
    ASSUME MediaTypeOK, NEW h \in Workers, chore[h] # NoChore
    PROVE  chore[h] \in Chore /\ chore[h].key \in Keys
  BY DEF MediaTypeOK, Chore, Workers

\* What a chore is when it has begun.
LEMMA BeginShape ==
    ASSUME MediaTypeOK, NEW h \in Workers, NEW k \in Keys,
           NEW p \in {"recording", "saving", "removing", "finding"},
           NEW q \in Kinds \cup {"upload", "delete"}, Begin(h, p, k, q)
    PROVE  /\ Arises(h, p, k, q)
           /\ raced' = (IF Handled(k) = {} THEN raced ELSE raced \cup {k})
           /\ UNCHANGED <<medias, old, refs, dropped, slips>>
  <1> DEFINE x == [pc |-> p, key |-> k, kind |-> q]
  <1>1. x \in Chore /\ x # NoChore /\ x.pc = p /\ x.key = k /\ x.kind = q
    BY DEF Chore, NoChore, Kinds
  <1>2. chore' = [chore EXCEPT ![h] = x] /\ chore[h] = NoChore
    BY DEF Begin
  <1> HIDE DEF x
  <1>3. chore'[h] = x /\ OnlyChore(h)
    BY <1>1, <1>2 DEF OnlyChore, MediaTypeOK, Workers
  <1> QED
    BY <1>1, <1>2, <1>3 DEF Arises, Begin

\* What a chore is when it goes to its next step.
LEMMA ChoreMoves ==
    ASSUME MediaTypeOK, NEW h \in Workers, chore[h] # NoChore
    PROVE  /\ \A p \in {"saving", "removing", "erasing", "forgetting"} : Turn(h, p) => Turns(h, p)
           /\ Finish(h) => Finishes(h)
  <1>1. ASSUME NEW p \in {"saving", "removing", "erasing", "forgetting"}, Turn(h, p)
        PROVE  Turns(h, p)
    <2> DEFINE x == [chore[h] EXCEPT !.pc = p]
    <2>1. chore[h] \in Chore
      BY ChoreTyped
    <2>2. x \in Chore /\ x.pc = p /\ x.key = chore[h].key /\ x.kind = chore[h].kind
      BY <2>1 DEF Chore
    <2>3. chore' = [chore EXCEPT ![h] = x]
      BY <1>1 DEF Turn
    <2> HIDE DEF x
    <2>4. chore'[h] = x /\ OnlyChore(h)
      BY <2>2, <2>3 DEF OnlyChore, MediaTypeOK, Workers
    <2>5. x # NoChore
      BY <2>2 DEF NoChore
    <2> QED
      BY <2>2, <2>4, <2>5 DEF Turns
  <1>2. ASSUME Finish(h) PROVE Finishes(h)
    BY <1>2 DEF Finish, Finishes, OnlyChore, MediaTypeOK, Workers
  <1> QED
    BY <1>1, <1>2

\* What each step makes of the chore.
LEMMA ChoreShape ==
    ASSUME MediaTypeOK, NEW h \in Workers
    PROVE  /\ CreateMedia(h) => chore[h].pc = "recording" /\ Finishes(h)
           /\ SaveReference(h) =>
                /\ chore[h].pc = "saving"
                /\ \/ Turns(h, "removing") /\ chore[h].kind = "register"
                   \/ Finishes(h) /\ chore[h].kind # "register"
           /\ RemoveMedia(h) =>
                /\ chore[h].pc = "removing"
                /\ \/ Turns(h, "saving") /\ chore[h].kind = "page"
                   \/ Finishes(h) /\ chore[h].kind # "page"
           /\ FindMedia(h) =>
                /\ chore[h].pc = "finding"
                /\ \/ Turns(h, "erasing") /\ chore[h].key \in medias
                   \/ Finishes(h) /\ chore[h].key \notin medias
           /\ DeleteObject(h) => chore[h].pc = "erasing" /\ Turns(h, "forgetting")
           /\ DeleteRow(h) => chore[h].pc = "forgetting" /\ Finishes(h)
           /\ FailSave(h) => chore[h].pc = "saving" /\ Finishes(h)
  <1>1. ASSUME CreateMedia(h) PROVE chore[h].pc = "recording" /\ Finishes(h)
    BY <1>1, ChoreMoves DEF CreateMedia, At
  <1>2. ASSUME SaveReference(h)
        PROVE  /\ chore[h].pc = "saving"
               /\ \/ Turns(h, "removing") /\ chore[h].kind = "register"
                  \/ Finishes(h) /\ chore[h].kind # "register"
    BY <1>2, ChoreMoves DEF SaveReference, At
  <1>3. ASSUME RemoveMedia(h)
        PROVE  /\ chore[h].pc = "removing"
               /\ \/ Turns(h, "saving") /\ chore[h].kind = "page"
                  \/ Finishes(h) /\ chore[h].kind # "page"
    BY <1>3, ChoreMoves DEF RemoveMedia, At
  <1>4. ASSUME FindMedia(h)
        PROVE  /\ chore[h].pc = "finding"
               /\ \/ Turns(h, "erasing") /\ chore[h].key \in medias
                  \/ Finishes(h) /\ chore[h].key \notin medias
    BY <1>4, ChoreMoves DEF FindMedia, At
  <1>5. ASSUME DeleteObject(h) PROVE chore[h].pc = "erasing" /\ Turns(h, "forgetting")
    BY <1>5, ChoreMoves DEF DeleteObject, At
  <1>6. ASSUME DeleteRow(h) PROVE chore[h].pc = "forgetting" /\ Finishes(h)
    BY <1>6, ChoreMoves DEF DeleteRow, At
  <1>7. ASSUME FailSave(h) PROVE chore[h].pc = "saving" /\ Finishes(h)
    BY <1>7, ChoreMoves DEF FailSave, At
  <1> QED
    BY <1>1, <1>2, <1>3, <1>4, <1>5, <1>6, <1>7

\* Which chores may begin, and how.
LEMMA StartShape ==
    ASSUME MediaTypeOK, NEW h \in Workers, NEW k \in Keys
    PROVE  /\ UploadImage(h, k) =>
                /\ k \notin uploaded /\ Arises(h, "recording", k, "upload")
                /\ uploaded' = uploaded \cup {k} /\ bucket' = bucket \cup {k}
                /\ raced' = (IF Handled(k) = {} THEN raced ELSE raced \cup {k})
                /\ UNCHANGED <<medias, old, refs, dropped, slips>>
           /\ DeleteImage(h, k) \/ (h = Cron /\ DeleteImagesJob(k)) =>
                /\ k \in uploaded /\ Arises(h, "finding", k, "delete")
                /\ raced' = (IF Handled(k) = {} THEN raced ELSE raced \cup {k})
                /\ UNCHANGED <<uploaded, bucket, medias, old, refs, dropped, slips>>
           /\ \A q \in Kinds : UseImage(h, k, q) =>
                /\ k \in medias /\ k \in uploaded
                /\ Arises(h, IF q = "page" THEN "removing" ELSE "saving", k, q)
                /\ raced' = (IF Handled(k) = {} THEN raced ELSE raced \cup {k})
                /\ UNCHANGED <<uploaded, bucket, medias, old, refs, dropped, slips>>
  <1>1. ASSUME UploadImage(h, k)
        PROVE  /\ k \notin uploaded /\ Arises(h, "recording", k, "upload")
               /\ uploaded' = uploaded \cup {k} /\ bucket' = bucket \cup {k}
               /\ raced' = (IF Handled(k) = {} THEN raced ELSE raced \cup {k})
               /\ UNCHANGED <<medias, old, refs, dropped, slips>>
    BY <1>1, BeginShape DEF UploadImage
  <1>2. ASSUME DeleteImage(h, k) \/ (h = Cron /\ DeleteImagesJob(k))
        PROVE  /\ k \in uploaded /\ Arises(h, "finding", k, "delete")
               /\ raced' = (IF Handled(k) = {} THEN raced ELSE raced \cup {k})
               /\ UNCHANGED <<uploaded, bucket, medias, old, refs, dropped, slips>>
    <2>1. k \in uploaded /\ Begin(h, "finding", k, "delete") /\ UNCHANGED <<uploaded, bucket>>
      BY <1>2 DEF DeleteImage, DeleteImagesJob, MediaTypeOK
    <2> QED
      BY <2>1, BeginShape
  <1>3. ASSUME NEW q \in Kinds, UseImage(h, k, q)
        PROVE  /\ k \in medias /\ k \in uploaded
               /\ Arises(h, IF q = "page" THEN "removing" ELSE "saving", k, q)
               /\ raced' = (IF Handled(k) = {} THEN raced ELSE raced \cup {k})
               /\ UNCHANGED <<uploaded, bucket, medias, old, refs, dropped, slips>>
    BY <1>3, BeginShape DEF UseImage, MediaTypeOK
  <1> QED
    BY <1>1, <1>2, <1>3

\* Every call of S3 and of the database keeps the types.
LEMMA MediaStepTyped ==
    ASSUME MediaTypeOK, ChoresFit, [MediaNext]_mediaVars
    PROVE  MediaTypeOK'
  <1>0. ASSUME NEW h \in Workers, chore[h] # NoChore
        PROVE  /\ chore[h].key \in uploaded /\ chore[h].key \in Keys
               /\ chore[h].pc = "saving" => chore[h].kind \in Kinds
    BY <1>0, ChoreTyped DEF ChoresFit, ChoreFits
  <1>1. ASSUME NEW h \in Workers, NEW k \in Keys, UploadImage(h, k) PROVE MediaTypeOK'
    BY <1>1, StartShape DEF Arises, OnlyChore, MediaTypeOK, Workers
  <1>2. ASSUME NEW h \in Workers, NEW k \in Keys, DeleteImage(h, k) \/ (h = Cron /\ DeleteImagesJob(k))
        PROVE  MediaTypeOK'
    BY <1>2, StartShape DEF Arises, OnlyChore, MediaTypeOK, Workers
  <1>3. ASSUME NEW h \in Workers, NEW k \in Keys, NEW q \in Kinds, UseImage(h, k, q)
        PROVE  MediaTypeOK'
    BY <1>3, StartShape DEF Arises, OnlyChore, MediaTypeOK, Workers
  <1>4. ASSUME NEW h \in Workers, CreateMedia(h) PROVE MediaTypeOK'
    <2>1. /\ chore' \in [Workers -> Chore \cup {NoChore}] /\ chore[h].key \in uploaded
      BY <1>0, <1>4, ChoreShape DEF Finishes, OnlyChore
    <2> QED
      BY <1>4, <2>1 DEF CreateMedia, SameMedia, MediaTypeOK, Workers
  <1>5. ASSUME NEW h \in Workers, SaveReference(h) PROVE MediaTypeOK'
    <2>1. /\ chore' \in [Workers -> Chore \cup {NoChore}] /\ chore[h].key \in Keys
          /\ chore[h].kind \in Kinds
      BY <1>0, <1>5, ChoreShape DEF Finishes, Turns, OnlyChore
    <2>2. refs' = [refs EXCEPT ![chore[h].key] = @ \cup {chore[h].kind}]
      BY <1>5 DEF SaveReference
    <2>3. refs' \in [Keys -> SUBSET Kinds]
      BY <2>1, <2>2 DEF MediaTypeOK
    <2> QED
      BY <1>5, <2>1, <2>3 DEF SaveReference, SameMedia, MediaTypeOK, Workers
  <1>6. ASSUME NEW h \in Workers, RemoveMedia(h) \/ FindMedia(h) \/ DeleteObject(h) \/ DeleteRow(h)
        PROVE  MediaTypeOK'
    <2>1. chore' \in [Workers -> Chore \cup {NoChore}]
      BY <1>6, ChoreShape DEF Finishes, Turns, OnlyChore
    <2>2. medias' \subseteq medias /\ bucket' \subseteq bucket /\ refs' = refs /\ SameMedia
      BY <1>6 DEF RemoveMedia, FindMedia, DeleteObject, DeleteRow, SameMedia
    <2> QED
      BY <2>1, <2>2 DEF SameMedia, MediaTypeOK, Workers
  <1>7. ASSUME NEW h \in Workers, FailSave(h) PROVE MediaTypeOK'
    <2>1. chore' \in [Workers -> Chore \cup {NoChore}]
      BY <1>7, ChoreShape DEF Finishes, OnlyChore
    <2>2. slips' \in 0..MaxSlips
      BY <1>7, MediaAssumption DEF FailSave, MediaTypeOK
    <2> QED
      BY <1>7, <2>1, <2>2 DEF FailSave, MediaTypeOK, Workers
  <1>8. ASSUME NEW k \in Keys, FiveMinutes(k) PROVE MediaTypeOK'
    BY <1>8 DEF FiveMinutes, MediaTypeOK
  <1>9. ASSUME NEW k \in Keys, NEW kinds \in {{"register", "edit"}, {"page"}}, DropReference(k, kinds)
        PROVE  MediaTypeOK'
    <2>1. k \in uploaded
      BY <1>9 DEF DropReference, ChoresFit
    <2>2. refs' \in [Keys -> SUBSET Kinds]
      BY <1>9 DEF DropReference, MediaTypeOK
    <2> QED
      BY <1>9, <2>1, <2>2 DEF DropReference, MediaTypeOK
  <1>10. ASSUME Stop PROVE MediaTypeOK'
    <2>1. slips' \in 0..MaxSlips
      BY <1>10, MediaAssumption DEF Stop, MediaTypeOK
    <2> QED
      BY <1>10, <2>1 DEF Stop, MediaTypeOK
  <1>11. ASSUME UNCHANGED mediaVars PROVE MediaTypeOK'
    BY <1>11 DEF mediaVars, MediaTypeOK
  <1>12. Cron \in Workers /\ Clerks \subseteq Workers
    BY DEF Workers
  <1> QED
    BY <1>1, <1>2, <1>3, <1>4, <1>5, <1>6, <1>7, <1>8, <1>9, <1>10, <1>11, <1>12
       DEF MediaNext, MediaStep, Workers

\* Every call keeps chores at steps that fit what they do.
LEMMA ChoresFitStep ==
    ASSUME MediaTypeOK, ChoresFit, [MediaNext]_mediaVars
    PROVE  ChoresFit'
  <1>0. ASSUME NEW h \in Workers, chore[h] # NoChore
        PROVE  ChoreFits(h) /\ chore[h].key \in Keys
    BY <1>0, ChoreTyped DEF ChoresFit
  <1>1. ASSUME NEW h \in Workers, NEW k \in Keys, UploadImage(h, k) PROVE ChoresFit'
    <2>1. /\ k \notin uploaded /\ Arises(h, "recording", k, "upload")
          /\ uploaded' = uploaded \cup {k} /\ bucket' = bucket \cup {k}
          /\ UNCHANGED <<medias, refs, dropped>>
      BY <1>1, StartShape
    <2>2. /\ k \notin medias /\ refs[k] = {}
          /\ \A g \in Workers : chore[g] # NoChore => chore[g].key # k
      BY <1>0, <2>1 DEF MediaTypeOK, ChoresFit, ChoreFits
    <2>3. ChoreFits(h)'
      BY <2>1, <2>2 DEF ChoreFits, Arises, OnlyChore
    <2>4. ASSUME NEW g \in Workers \ {h}, chore'[g] # NoChore PROVE ChoreFits(g)'
      BY <1>0, <2>1, <2>2, <2>4 DEF ChoreFits, Arises, OnlyChore
    <2> QED
      BY <2>1, <2>3, <2>4 DEF ChoresFit
  <1>2. ASSUME NEW h \in Workers, NEW k \in Keys, DeleteImage(h, k) \/ (h = Cron /\ DeleteImagesJob(k))
        PROVE  ChoresFit'
    <2>1. /\ k \in uploaded /\ Arises(h, "finding", k, "delete")
          /\ UNCHANGED <<uploaded, bucket, medias, refs, dropped>>
      BY <1>2, StartShape
    <2>2. ChoreFits(h)'
      BY <2>1 DEF ChoreFits, Arises
    <2>3. ASSUME NEW g \in Workers \ {h}, chore'[g] # NoChore PROVE ChoreFits(g)'
      BY <1>0, <2>1, <2>3 DEF ChoreFits, Arises, OnlyChore
    <2> QED
      BY <2>1, <2>2, <2>3 DEF ChoresFit
  <1>3. ASSUME NEW h \in Workers, NEW k \in Keys, NEW q \in Kinds, UseImage(h, k, q)
        PROVE  ChoresFit'
    <2>1. /\ k \in medias /\ k \in uploaded
          /\ Arises(h, IF q = "page" THEN "removing" ELSE "saving", k, q)
          /\ UNCHANGED <<uploaded, bucket, medias, refs, dropped>>
      BY <1>3, StartShape
    <2>2. ChoreFits(h)'
      BY <2>1 DEF ChoreFits, Arises
    <2>3. ASSUME NEW g \in Workers \ {h}, chore'[g] # NoChore PROVE ChoreFits(g)'
      BY <1>0, <2>1, <2>3 DEF ChoreFits, Arises, OnlyChore
    <2> QED
      BY <2>1, <2>2, <2>3 DEF ChoresFit
  <1>4. ASSUME NEW h \in Workers, CreateMedia(h) PROVE ChoresFit'
    <2>1. /\ chore[h].pc = "recording" /\ Finishes(h) /\ medias' = medias \cup {chore[h].key}
          /\ UNCHANGED <<uploaded, bucket, refs, dropped>>
      BY <1>4, ChoreShape DEF CreateMedia, SameMedia
    <2>2. ASSUME NEW g \in Workers, chore'[g] # NoChore PROVE ChoreFits(g)'
      <3>1. g # h /\ chore'[g] = chore[g]
        BY <2>1, <2>2 DEF Finishes, OnlyChore
      <3>2. ChoreFits(g) /\ ChoreFits(h)
        BY <1>0, <2>1, <2>2, <3>1 DEF Finishes
      <3>3. chore[g].pc = "recording" => chore[g].key # chore[h].key
        BY <2>1, <2>2, <3>1, <3>2 DEF ChoreFits, Finishes
      <3> QED
        BY <2>1, <3>1, <3>2, <3>3 DEF ChoreFits, Finishes, OnlyChore
    <2> QED
      BY <2>1, <2>2 DEF ChoresFit
  <1>5. ASSUME NEW h \in Workers, SaveReference(h) PROVE ChoresFit'
    <2>1. /\ chore[h].pc = "saving" /\ chore[h] # NoChore /\ OnlyChore(h)
          /\ \/ Turns(h, "removing") /\ chore[h].kind = "register"
             \/ Finishes(h)
          /\ refs' = [refs EXCEPT ![chore[h].key] = @ \cup {chore[h].kind}]
          /\ UNCHANGED <<uploaded, bucket, medias, dropped>>
      BY <1>5, ChoreShape DEF SaveReference, SameMedia, Turns, Finishes
    <2>2. ChoreFits(h) /\ chore[h].key \in Keys
      BY <1>0, <2>1
    <2>3. /\ refs'[chore[h].key] # {} /\ \A k \in Keys : k # chore[h].key => refs'[k] = refs[k]
          /\ \A k \in Keys : refs[k] # {} => refs'[k] # {}
      BY <2>1, <2>2 DEF MediaTypeOK
    <2>4. chore'[h] # NoChore => ChoreFits(h)'
      BY <2>1, <2>2, <2>3 DEF ChoreFits, Turns, Finishes
    <2>5. ASSUME NEW g \in Workers \ {h}, chore'[g] # NoChore PROVE ChoreFits(g)'
      <3>1. chore'[g] = chore[g] /\ ChoreFits(g) /\ chore[g].key \in Keys
        BY <1>0, <2>1, <2>5 DEF OnlyChore
      <3>2. chore[g].pc = "recording" => chore[g].key # chore[h].key
        BY <2>1, <2>5, <3>1 DEF ChoreFits
      <3>3. chore'[h] # NoChore => chore'[h].key = chore[h].key
        BY <2>1 DEF Turns, Finishes
      <3> QED
        BY <2>1, <2>3, <3>1, <3>2, <3>3 DEF ChoreFits, OnlyChore
    <2>6. \A k \in Keys \ uploaded' : refs'[k] = {}
      BY <2>1, <2>2, <2>3 DEF ChoresFit, ChoreFits
    <2> QED
      BY <2>4, <2>5, <2>6 DEF ChoresFit
  <1>6. ASSUME NEW h \in Workers, RemoveMedia(h) \/ FindMedia(h) \/ DeleteObject(h) \/ DeleteRow(h)
        PROVE  ChoresFit'
    <2>1. UNCHANGED <<uploaded, refs, dropped>>
      BY <1>6 DEF RemoveMedia, FindMedia, DeleteObject, DeleteRow, SameMedia
    <2>2. /\ chore[h] # NoChore /\ OnlyChore(h)
          /\ chore[h].pc \in {"removing", "finding", "erasing", "forgetting"}
          /\ medias' \subseteq medias
          /\ \/ bucket' = bucket
             \/ chore[h].pc = "erasing" /\ bucket' = bucket \ {chore[h].key}
          /\ \/ Finishes(h)
             \/ chore[h].pc = "removing" /\ Turns(h, "saving") /\ chore[h].kind = "page"
             \/ Turns(h, "erasing") /\ chore[h].key \in medias
             \/ Turns(h, "forgetting") /\ bucket' = bucket \ {chore[h].key}
      <3>1. CASE RemoveMedia(h)
        BY <3>1, ChoreShape DEF RemoveMedia, Turns, Finishes
      <3>2. CASE FindMedia(h)
        BY <3>2, ChoreShape DEF FindMedia, Turns, Finishes
      <3>3. CASE DeleteObject(h)
        BY <3>3, ChoreShape DEF DeleteObject, Turns, Finishes
      <3>4. CASE DeleteRow(h)
        BY <3>4, ChoreShape DEF DeleteRow, Turns, Finishes
      <3> QED
        BY <1>6, <3>1, <3>2, <3>3, <3>4
    <2>3. ChoreFits(h) /\ chore[h].key \in Keys
      BY <1>0, <2>2
    <2>4. chore'[h] # NoChore => ChoreFits(h)'
      BY <2>1, <2>2, <2>3 DEF ChoreFits, Turns, Finishes, Kinds
    <2>5. ASSUME NEW g \in Workers \ {h}, chore'[g] # NoChore PROVE ChoreFits(g)'
      <3>1. chore'[g] = chore[g] /\ ChoreFits(g) /\ chore[g].key \in Keys
        BY <1>0, <2>2, <2>5 DEF OnlyChore
      <3>2. chore[g].pc = "recording" /\ chore[g].key = chore[h].key =>
                chore[h].pc = "finding"
        BY <2>2, <2>5, <3>1 DEF ChoreFits
      <3>3. chore[g].pc = "recording" => chore[g].key \notin medias
        BY <3>1 DEF ChoreFits
      <3>4. chore'[h] # NoChore => chore'[h].key = chore[h].key
        BY <2>2 DEF Turns, Finishes
      <3>5. chore[g].pc = "recording" /\ chore[g].key = chore[h].key =>
                chore'[h] = NoChore /\ bucket' = bucket
        BY <1>6, <3>2, <3>3, ChoreShape DEF FindMedia, Finishes
      <3> QED
        BY <2>1, <2>2, <3>1, <3>2, <3>3, <3>4, <3>5 DEF ChoreFits, OnlyChore
    <2>6. \A k \in Keys \ uploaded' : refs'[k] = {}
      BY <2>1 DEF ChoresFit
    <2> QED
      BY <2>4, <2>5, <2>6 DEF ChoresFit
  <1>7. ASSUME NEW h \in Workers, FailSave(h) PROVE ChoresFit'
    <2>1. Finishes(h) /\ UNCHANGED <<uploaded, bucket, medias, refs, dropped>>
      BY <1>7, ChoreShape DEF FailSave
    <2>2. ASSUME NEW g \in Workers, chore'[g] # NoChore PROVE ChoreFits(g)'
      <3>1. chore'[g] = chore[g] /\ ChoreFits(g)
        BY <1>0, <2>1, <2>2 DEF OnlyChore, Finishes
      <3> QED
        BY <2>1, <3>1 DEF ChoreFits, OnlyChore, Finishes
    <2> QED
      BY <2>1, <2>2 DEF ChoresFit
  <1>8. ASSUME NEW k \in Keys, FiveMinutes(k) PROVE ChoresFit'
    BY <1>8 DEF FiveMinutes, ChoresFit, ChoreFits
  <1>9. ASSUME NEW k \in Keys, NEW kinds \in {{"register", "edit"}, {"page"}}, DropReference(k, kinds)
        PROVE  ChoresFit'
    <2>1. /\ UNCHANGED <<uploaded, bucket, medias, chore>> /\ dropped' = dropped \cup {k}
          /\ \A j \in Keys : refs'[j] \subseteq refs[j] /\ (j # k => refs'[j] = refs[j])
      BY <1>9 DEF DropReference, MediaTypeOK
    <2>2. ASSUME NEW g \in Workers, chore'[g] # NoChore PROVE ChoreFits(g)'
      <3>1. ChoreFits(g) /\ chore[g].key \in Keys
        BY <1>0, <2>1, <2>2
      <3> QED
        BY <2>1, <3>1 DEF ChoreFits
    <2> QED
      BY <2>1, <2>2 DEF ChoresFit
  <1>10. ASSUME Stop PROVE ChoresFit'
    BY <1>10 DEF Stop, ChoresFit, Workers
  <1>11. ASSUME UNCHANGED mediaVars PROVE ChoresFit'
    BY <1>11 DEF mediaVars, ChoresFit, ChoreFits
  <1>12. Cron \in Workers /\ Clerks \subseteq Workers
    BY DEF Workers
  <1> QED
    BY <1>1, <1>2, <1>3, <1>4, <1>5, <1>6, <1>7, <1>8, <1>9, <1>10, <1>11, <1>12
       DEF MediaNext, MediaStep, Workers

\* A step with another image leaves this one as it is.
LEMMA OtherImage ==
    ASSUME NEW k, ImageFits(k), NEW h \in Workers, OnlyChore(h),
           chore[h] = NoChore \/ chore[h].key # k, chore'[h] = NoChore \/ chore'[h].key # k,
           k \in medias' <=> k \in medias, k \in bucket' <=> k \in bucket, refs'[k] = refs[k],
           dropped \subseteq dropped', k \in raced => k \in raced'
    PROVE  ImageFits(k)'
  <1>1. \A g \in Workers : (chore'[g] # NoChore /\ chore'[g].key = k)
                              <=> (chore[g] # NoChore /\ chore[g].key = k)
    BY DEF OnlyChore
  <1>2. \A g \in Workers : chore[g] # NoChore /\ chore[g].key = k => chore'[g] = chore[g]
    BY DEF OnlyChore
  <1>3. Handled(k)' = Handled(k)
    BY <1>1 DEF Handled, Workers
  <1>4. \A g \in Handled(k) : g \in Workers /\ chore'[g] = chore[g]
    BY <1>2 DEF Handled, Workers
  <1>5. \A g \in Workers, p \in {"forgetting", "recording", "saving", "removing"} :
            Doing(g, k, p) => Doing(g, k, p)' /\ chore'[g] = chore[g]
    BY <1>2 DEF Doing
  <1>6. RowBacked(k)'
    BY <1>5 DEF ImageFits, RowBacked
  <1>7. Accounted(k)'
    BY <1>5 DEF ImageFits, Accounted
  <1>8. k \notin raced' => Kept(k)'
    BY <1>3, <1>4, <1>5 DEF ImageFits, Kept, InUse
  <1> QED
    BY <1>6, <1>7, <1>8 DEF ImageFits

\* An image that a chore works on is taken care of.
LEMMA HandledBy ==
    ASSUME NEW k, NEW h
    PROVE  h \in Handled(k) <=> h \in Workers /\ chore[h] # NoChore /\ chore[h].key = k
  BY DEF Handled, Workers

\* Whoever starts with an image that nobody handles is the only one.
LEMMA StartsAlone ==
    ASSUME NEW k \in Keys, NEW h \in Workers, NEW p, NEW q, Arises(h, p, k, q),
           raced' = (IF Handled(k) = {} THEN raced ELSE raced \cup {k}), k \notin raced'
    PROVE  /\ k \notin raced /\ Handled(k) = {} /\ Handled(k)' = {h}
           /\ \A g \in Workers : \A r : ~Doing(g, k, r)
  <1>1. k \notin raced /\ Handled(k) = {}
    OBVIOUS
  <1>2. \A g \in Workers : ~(chore[g] # NoChore /\ chore[g].key = k)
    BY <1>1, HandledBy
  <1>3. Handled(k)' = {h}
    BY <1>2 DEF Handled, Workers, Arises, OnlyChore
  <1> QED
    BY <1>1, <1>2, <1>3 DEF Doing

\* Every call keeps objects, rows and uses of an image together.
LEMMA ImagesFitStep ==
    ASSUME MediaTypeOK, ChoresFit, ChoresFit', ImagesFit, [MediaNext]_mediaVars
    PROVE  ImagesFit'
  <1> SUFFICES ASSUME slips' = 0, NEW k \in Keys PROVE ImageFits(k)'
    BY DEF ImagesFit
  <1>0. slips = 0 /\ ~Stop /\ \A h \in Workers : ~FailSave(h)
    <2>1. slips \in Nat
      BY MediaAssumption DEF MediaTypeOK
    <2>2. slips' = slips + 1 => FALSE
      BY <2>1
    <2>3. ~Stop /\ \A h \in Workers : ~FailSave(h)
      BY <2>2 DEF Stop, FailSave
    <2>4. slips' = slips
      <3>1. ASSUME NEW h \in Workers, NEW j \in Keys,
                   UploadImage(h, j) \/ DeleteImage(h, j) \/ (\E q \in Kinds : UseImage(h, j, q))
                   \/ (h = Cron /\ DeleteImagesJob(j))
            PROVE  slips' = slips
        BY <3>1, StartShape
      <3>2. ASSUME NEW h \in Workers, MediaStep(h) PROVE slips' = slips
        BY <3>2 DEF MediaStep, CreateMedia, SaveReference, RemoveMedia, FindMedia, DeleteObject,
           DeleteRow, SameMedia
      <3>3. Cron \in Workers /\ Clerks \subseteq Workers
        BY DEF Workers
      <3> QED
        BY <2>3, <3>1, <3>2, <3>3 DEF MediaNext, FiveMinutes, DropReference, mediaVars, Workers
    <2> QED
      BY <2>3, <2>4
  <1>f. /\ ImageFits(k)
        /\ \A h \in Workers : chore[h] # NoChore => ChoreFits(h) /\ chore[h].key \in Keys
    BY <1>0, ChoreTyped DEF ImagesFit, ChoresFit
  <1>m. medias \subseteq uploaded /\ bucket \subseteq uploaded /\ refs \in [Keys -> SUBSET Kinds]
    BY DEF MediaTypeOK
  <1>1. ASSUME NEW h \in Workers, NEW j \in Keys, UploadImage(h, j) PROVE ImageFits(k)'
    <2>1. /\ j \notin uploaded /\ Arises(h, "recording", j, "upload")
          /\ bucket' = bucket \cup {j}
          /\ raced' = (IF Handled(j) = {} THEN raced ELSE raced \cup {j})
          /\ UNCHANGED <<medias, refs, dropped>>
      BY <1>1, StartShape
    <2>2. CASE j # k
      BY <1>f, <2>1, <2>2, OtherImage DEF Arises
    <2>3. CASE j = k
      <3>1. k \notin medias /\ refs[k] = {} /\ ~InUse(k)'
        BY <1>m, <2>1, <2>3 DEF ChoresFit, InUse
      <3>2. Doing(h, k, "recording")'
        BY <2>1, <2>3 DEF Arises, Doing
      <3>3. RowBacked(k)' /\ Accounted(k)'
        BY <2>1, <3>1, <3>2 DEF RowBacked, Accounted
      <3>4. ASSUME k \notin raced' PROVE Kept(k)'
        <4>1. Handled(k)' = {h}
          BY <2>1, <2>3, <3>4, StartsAlone
        <4> QED
          BY <3>1, <3>2, <4>1 DEF Kept, Doing
      <3> QED
        BY <3>3, <3>4 DEF ImageFits
    <2> QED
      BY <2>2, <2>3
  <1>2. ASSUME NEW h \in Workers, NEW j \in Keys, DeleteImage(h, j) \/ (h = Cron /\ DeleteImagesJob(j))
        PROVE  ImageFits(k)'
    <2>1. /\ Arises(h, "finding", j, "delete")
          /\ raced' = (IF Handled(j) = {} THEN raced ELSE raced \cup {j})
          /\ UNCHANGED <<bucket, medias, refs, dropped>>
      BY <1>2, StartShape
    <2>2. CASE j # k
      BY <1>f, <2>1, <2>2, OtherImage DEF Arises
    <2>3. CASE j = k
      <3>1. \A g \in Workers : \A p : Doing(g, k, p) => Doing(g, k, p)'
        BY <2>1 DEF Arises, Doing, OnlyChore
      <3>2. RowBacked(k)' /\ Accounted(k)'
        BY <1>f, <2>1, <3>1 DEF ImageFits, RowBacked, Accounted
      <3>3. ASSUME k \notin raced' PROVE Kept(k)'
        <4>1. /\ k \notin raced /\ Handled(k)' = {h}
              /\ \A g \in Workers : \A p : ~Doing(g, k, p)
          BY <2>1, <2>3, <3>3, StartsAlone
        <4>2. Kept(k)
          BY <1>f, <4>1 DEF ImageFits
        <4>3. chore'[h].pc = "finding"
          BY <2>1 DEF Arises
        <4> QED
          BY <2>1, <4>1, <4>2, <4>3 DEF Kept, InUse
      <3> QED
        BY <3>2, <3>3 DEF ImageFits
    <2> QED
      BY <2>2, <2>3
  <1>3. ASSUME NEW h \in Workers, NEW j \in Keys, NEW q \in Kinds, UseImage(h, j, q)
        PROVE  ImageFits(k)'
    <2>1. /\ j \in medias
          /\ Arises(h, IF q = "page" THEN "removing" ELSE "saving", j, q)
          /\ raced' = (IF Handled(j) = {} THEN raced ELSE raced \cup {j})
          /\ UNCHANGED <<bucket, medias, refs, dropped>>
      BY <1>3, StartShape
    <2>2. CASE j # k
      BY <1>f, <2>1, <2>2, OtherImage DEF Arises
    <2>3. CASE j = k
      <3>1. \A g \in Workers : \A p : Doing(g, k, p) => Doing(g, k, p)'
        BY <2>1 DEF Arises, Doing, OnlyChore
      <3>2. RowBacked(k)' /\ Accounted(k)'
        BY <1>f, <2>1, <3>1 DEF ImageFits, RowBacked, Accounted
      <3>3. ASSUME k \notin raced' PROVE Kept(k)'
        <4>1. /\ k \notin raced /\ Handled(k)' = {h}
              /\ \A g \in Workers : \A p : ~Doing(g, k, p)
          BY <2>1, <2>3, <3>3, StartsAlone
        <4>2. Kept(k) /\ k \in bucket
          BY <1>f, <2>1, <2>3, <4>1 DEF ImageFits, RowBacked
        <4>3. ~InUse(k)
          BY <2>1, <2>3, <4>1, <4>2 DEF Kept
        <4>4. chore'[h].pc \in {"removing", "saving"} /\ chore'[h].kind = q
              /\ (q = "page" => chore'[h].pc = "removing")
          BY <2>1 DEF Arises
        <4> QED
          BY <2>1, <4>1, <4>2, <4>3, <4>4 DEF Kept, InUse
      <3> QED
        BY <3>2, <3>3 DEF ImageFits
    <2> QED
      BY <2>2, <2>3
  \* The one that works on the image alone.
  <1>a. ASSUME k \notin raced, NEW h \in Workers, chore[h] # NoChore, chore[h].key = k
        PROVE  Kept(k) /\ Handled(k) = {h}
    BY <1>f, <1>a, HandledBy DEF ImageFits, Kept
  <1>b. ASSUME NEW h \in Workers, Handled(k) = {h}, Finishes(h) \/ \E p : Turns(h, p)
        PROVE  Handled(k)' = (IF chore'[h] = NoChore THEN {} ELSE {h})
    <2>1. \A g \in Workers : (chore[g] # NoChore /\ chore[g].key = k) <=> g = h
      BY <1>b, HandledBy
    <2>2. \A g \in Workers : (chore'[g] # NoChore /\ chore'[g].key = k)
                                <=> g = h /\ chore'[h] # NoChore
      BY <1>b, <2>1 DEF Finishes, Turns, OnlyChore
    <2> QED
      BY <2>2 DEF Handled, Workers
  <1>c. ASSUME NEW h \in Workers, OnlyChore(h), NEW p, chore[h].pc # p
        PROVE  \A g \in Workers : Doing(g, k, p) => Doing(g, k, p)' /\ chore'[g] = chore[g]
    BY <1>c DEF OnlyChore, Doing
  <1>d. ASSUME NEW h \in Workers, Finishes(h) \/ (\E p : Turns(h, p)), chore[h].key # k,
               k \in medias' <=> k \in medias, k \in bucket' <=> k \in bucket,
               refs'[k] = refs[k], UNCHANGED <<dropped, raced>>
        PROVE  ImageFits(k)'
    BY <1>d, <1>f, OtherImage DEF Finishes, Turns
  <1>4. ASSUME NEW h \in Workers, CreateMedia(h) PROVE ImageFits(k)'
    <2>1. /\ chore[h].pc = "recording" /\ Finishes(h) /\ medias' = medias \cup {chore[h].key}
          /\ UNCHANGED <<bucket, refs, dropped, raced>>
      BY <1>4, ChoreShape DEF CreateMedia, SameMedia
    <2>2. CASE chore[h].key # k
      BY <1>d, <2>1, <2>2
    <2>3. CASE chore[h].key = k
      <3>1. k \in bucket /\ refs[k] = {}
        BY <1>f, <2>1, <2>3 DEF ChoreFits, Finishes
      <3>2. RowBacked(k)' /\ Accounted(k)'
        BY <2>1, <2>3, <3>1 DEF RowBacked, Accounted
      <3>3. ASSUME k \notin raced' PROVE Kept(k)'
        <4>1. Handled(k)' = {}
          BY <1>a, <1>b, <2>1, <2>3, <3>3 DEF Finishes
        <4> QED
          BY <2>1, <3>1, <4>1 DEF Kept, InUse
      <3> QED
        BY <3>2, <3>3 DEF ImageFits
    <2> QED
      BY <2>2, <2>3
  <1>5. ASSUME NEW h \in Workers, SaveReference(h) PROVE ImageFits(k)'
    <2>1. /\ chore[h].pc = "saving" /\ chore[h] # NoChore /\ OnlyChore(h)
          /\ \/ Turns(h, "removing") /\ chore[h].kind = "register"
             \/ Finishes(h) /\ chore[h].kind # "register"
          /\ refs' = [refs EXCEPT ![chore[h].key] = @ \cup {chore[h].kind}]
          /\ UNCHANGED <<bucket, medias, dropped, raced>>
      BY <1>5, ChoreShape DEF SaveReference, SameMedia, Turns, Finishes
    <2>2. CASE chore[h].key # k
      <3>1. refs'[k] = refs[k]
        BY <1>m, <2>1, <2>2
      <3> QED
        BY <1>d, <2>1, <2>2, <3>1
    <2>3. CASE chore[h].key = k
      <3>1. refs'[k] = refs[k] \cup {chore[h].kind} /\ chore[h].kind \in Kinds
        BY <1>f, <1>m, <2>1, <2>3 DEF ChoreFits
      <3>2. RowBacked(k)' /\ Accounted(k)'
        BY <1>c, <1>f, <2>1, <3>1 DEF ImageFits, RowBacked, Accounted
      <3>3. ASSUME k \notin raced' PROVE Kept(k)'
        <4>1. Kept(k) /\ Handled(k) = {h} /\ k \in bucket
              /\ (chore[h].kind = "page" => k \notin medias)
          BY <1>a, <2>1, <2>3, <3>3 DEF Kept
        <4>2. Handled(k)' = (IF chore'[h] = NoChore THEN {} ELSE {h})
          BY <1>b, <2>1, <4>1
        <4>3. CASE chore[h].kind = "register"
          <5>1. /\ Handled(k)' = {h} /\ chore'[h].pc = "removing" /\ Doing(h, k, "removing")'
                /\ chore'[h].kind = "register"
            BY <2>1, <2>3, <4>2, <4>3 DEF Turns, Doing
          <5> QED
            BY <2>1, <4>1, <5>1 DEF Kept
        <4>4. CASE chore[h].kind = "page"
          <5>1. Handled(k)' = {}
            BY <2>1, <4>2, <4>4 DEF Finishes
          <5> QED
            BY <2>1, <4>1, <4>4, <5>1 DEF Kept
        <4>5. CASE chore[h].kind = "edit"
          <5>1. Handled(k)' = {} /\ (InUse(k)' => InUse(k))
            BY <2>1, <3>1, <4>2, <4>5 DEF Finishes, InUse
          <5>2. InUse(k) => k \notin medias
            <6>1. \A g \in Workers : Doing(g, k, "removing") => g = h
              BY <4>1, HandledBy DEF Doing
            <6> QED
              BY <2>1, <4>1, <6>1 DEF Kept, Doing
          <5> QED
            BY <2>1, <4>1, <5>1, <5>2 DEF Kept
        <4> QED
          BY <3>1, <4>3, <4>4, <4>5 DEF Kinds
      <3> QED
        BY <3>2, <3>3 DEF ImageFits
    <2> QED
      BY <2>2, <2>3
  <1>6. ASSUME NEW h \in Workers, RemoveMedia(h) PROVE ImageFits(k)'
    <2>1. /\ chore[h].pc = "removing" /\ chore[h] # NoChore /\ OnlyChore(h)
          /\ \/ Turns(h, "saving") /\ chore[h].kind = "page"
             \/ Finishes(h) /\ chore[h].kind # "page"
          /\ medias' = medias \ {chore[h].key}
          /\ UNCHANGED <<bucket, refs, dropped, raced>>
      BY <1>6, ChoreShape DEF RemoveMedia, SameMedia, Turns, Finishes
    <2>2. CASE chore[h].key # k
      BY <1>d, <2>1, <2>2
    <2>3. CASE chore[h].key = k
      <3>1. RowBacked(k)' /\ k \notin medias'
        BY <2>1, <2>3 DEF RowBacked
      <3>2. Accounted(k)'
        <4>1. CASE chore[h].kind = "page"
          BY <2>1, <2>3, <4>1 DEF Turns, Doing, Accounted
        <4>2. CASE chore[h].kind # "page"
          BY <1>f, <2>1, <2>3, <4>2 DEF ChoreFits, Accounted
        <4> QED
          BY <4>1, <4>2
      <3>3. ASSUME k \notin raced' PROVE Kept(k)'
        <4>1. Kept(k) /\ Handled(k) = {h} /\ k \in bucket
          BY <1>a, <2>1, <2>3, <3>3 DEF Kept
        <4>2. Handled(k)' = (IF chore'[h] = NoChore THEN {} ELSE {h})
          BY <1>b, <2>1, <4>1
        <4>3. chore'[h] # NoChore => chore'[h].pc = "saving"
          BY <2>1 DEF Turns, Finishes
        <4> QED
          BY <2>1, <3>1, <4>1, <4>2, <4>3 DEF Kept
      <3> QED
        BY <3>1, <3>2, <3>3 DEF ImageFits
    <2> QED
      BY <2>2, <2>3
  <1>7. ASSUME NEW h \in Workers, FindMedia(h) PROVE ImageFits(k)'
    <2>1. /\ chore[h].pc = "finding" /\ chore[h] # NoChore /\ OnlyChore(h)
          /\ \/ Turns(h, "erasing") /\ chore[h].key \in medias
             \/ Finishes(h)
          /\ UNCHANGED <<bucket, medias, refs, dropped, raced>>
      BY <1>7, ChoreShape DEF FindMedia, SameMedia, Turns, Finishes
    <2>2. CASE chore[h].key # k
      BY <1>d, <2>1, <2>2
    <2>3. CASE chore[h].key = k
      <3>1. RowBacked(k)' /\ Accounted(k)'
        BY <1>c, <1>f, <2>1 DEF ImageFits, RowBacked, Accounted
      <3>2. ASSUME k \notin raced' PROVE Kept(k)'
        <4>1. Kept(k) /\ Handled(k) = {h}
          BY <1>a, <2>1, <2>3, <3>2
        <4>2. Handled(k)' = (IF chore'[h] = NoChore THEN {} ELSE {h})
          BY <1>b, <2>1, <4>1
        <4>3. InUse(k) => k \in bucket /\ k \notin medias
          <5>1. \A g \in Workers : Doing(g, k, "removing") => g = h
            BY <4>1, HandledBy DEF Doing
          <5> QED
            BY <2>1, <4>1, <5>1 DEF Kept, Doing
        <4>4. chore'[h] # NoChore => chore'[h].pc = "erasing" /\ k \in medias
          BY <2>1, <2>3 DEF Turns, Finishes
        <4> QED
          BY <2>1, <4>1, <4>2, <4>3, <4>4 DEF Kept, InUse
      <3> QED
        BY <3>1, <3>2 DEF ImageFits
    <2> QED
      BY <2>2, <2>3
  <1>8. ASSUME NEW h \in Workers, DeleteObject(h) PROVE ImageFits(k)'
    <2>1. /\ chore[h].pc = "erasing" /\ chore[h] # NoChore /\ Turns(h, "forgetting")
          /\ bucket' = bucket \ {chore[h].key}
          /\ UNCHANGED <<medias, refs, dropped, raced>>
      BY <1>8, ChoreShape DEF DeleteObject, SameMedia, Turns
    <2>2. CASE chore[h].key # k
      BY <1>d, <2>1, <2>2
    <2>3. CASE chore[h].key = k
      <3>1. Doing(h, k, "forgetting")' /\ k \notin bucket'
        BY <2>1, <2>3 DEF Turns, Doing
      <3>2. RowBacked(k)' /\ Accounted(k)'
        BY <3>1 DEF RowBacked, Accounted
      <3>3. ASSUME k \notin raced' PROVE Kept(k)'
        <4>1. Kept(k) /\ Handled(k) = {h} /\ ~InUse(k)
          BY <1>a, <2>1, <2>3, <3>3 DEF Kept
        <4>2. Handled(k)' = {h}
          BY <1>b, <2>1, <4>1 DEF Turns
        <4> QED
          BY <2>1, <3>1, <4>1, <4>2 DEF Kept, InUse, Doing
      <3> QED
        BY <3>2, <3>3 DEF ImageFits
    <2> QED
      BY <2>2, <2>3
  <1>9. ASSUME NEW h \in Workers, DeleteRow(h) PROVE ImageFits(k)'
    <2>1. /\ chore[h].pc = "forgetting" /\ chore[h] # NoChore /\ Finishes(h)
          /\ medias' = medias \ {chore[h].key}
          /\ UNCHANGED <<bucket, refs, dropped, raced>>
      BY <1>9, ChoreShape DEF DeleteRow, SameMedia, Finishes
    <2>2. CASE chore[h].key # k
      BY <1>d, <2>1, <2>2
    <2>3. CASE chore[h].key = k
      <3>1. k \notin medias' /\ k \notin bucket'
        BY <1>f, <2>1, <2>3 DEF ChoreFits
      <3>2. RowBacked(k)' /\ Accounted(k)'
        BY <3>1 DEF RowBacked, Accounted
      <3>3. ASSUME k \notin raced' PROVE Kept(k)'
        <4>1. Kept(k) /\ Handled(k) = {h} /\ ~InUse(k)
          BY <1>a, <2>1, <2>3, <3>3 DEF Kept
        <4>2. Handled(k)' = {}
          BY <1>b, <2>1, <4>1 DEF Finishes
        <4> QED
          BY <2>1, <3>1, <4>1, <4>2 DEF Kept, InUse
      <3> QED
        BY <3>2, <3>3 DEF ImageFits
    <2> QED
      BY <2>2, <2>3
  <1>10. ASSUME NEW j \in Keys, NEW kinds \in {{"register", "edit"}, {"page"}}, DropReference(j, kinds)
         PROVE  ImageFits(k)'
    <2>1. /\ UNCHANGED <<bucket, medias, chore, raced>> /\ dropped' = dropped \cup {j}
          /\ refs'[k] \subseteq refs[k] /\ (j # k => refs'[k] = refs[k])
      BY <1>10, <1>m DEF DropReference
    <2>2. RowBacked(k)' /\ Accounted(k)'
      BY <1>f, <2>1 DEF ImageFits, RowBacked, Accounted, Doing
    <2>3. k \notin raced' => Kept(k)'
      BY <1>f, <2>1 DEF ImageFits, Kept, InUse, Handled, Doing
    <2> QED
      BY <2>2, <2>3 DEF ImageFits
  <1>11. ASSUME UNCHANGED <<bucket, medias, chore, raced, refs, dropped>> PROVE ImageFits(k)'
    BY <1>f, <1>11 DEF ImageFits, RowBacked, Accounted, Kept, InUse, Handled, Doing
  <1>12. ASSUME NEW j \in Keys, FiveMinutes(j) PROVE ImageFits(k)'
    BY <1>11, <1>12 DEF FiveMinutes
  <1>13. ASSUME UNCHANGED mediaVars PROVE ImageFits(k)'
    BY <1>11, <1>13 DEF mediaVars
  <1>14. Cron \in Workers /\ Clerks \subseteq Workers
    BY DEF Workers
  <1> QED
    BY <1>0, <1>1, <1>2, <1>3, <1>4, <1>5, <1>6, <1>7, <1>8, <1>9, <1>10, <1>12, <1>13, <1>14
       DEF MediaNext, MediaStep, Workers

\* Whatever fails or stops between the calls of S3 and of the database, and whatever
\* runs at once, an image in use is there but for those somebody deleted, and what is
\* stored without a use has a row or a chore that knows of it (media.service.ts).
THEOREM MediaKept == MediaSpec => []MediaSound
  <1>1. ASSUME MediaInit PROVE MediaInv
    <2>1. 0 \in 0..MaxSlips
      BY MediaAssumption
    <2>2. MediaTypeOK
      BY <1>1, <2>1 DEF MediaInit, MediaTypeOK
    <2>3. \A h \in Workers : chore[h] = NoChore
      BY <1>1 DEF MediaInit, Workers
    <2>4. ChoresFit
      BY <1>1, <2>3 DEF MediaInit, ChoresFit
    <2>5. ASSUME NEW k \in Keys PROVE ImageFits(k)
      <3>1. Handled(k) = {}
        BY <2>3, HandledBy
      <3>2. k \notin medias /\ k \notin bucket /\ ~InUse(k)
        BY <1>1 DEF MediaInit, InUse
      <3> QED
        BY <3>1, <3>2 DEF ImageFits, RowBacked, Accounted, Kept
    <2> QED
      BY <2>2, <2>4, <2>5 DEF MediaInv, ImagesFit
  <1>2. MediaInv /\ [MediaNext]_mediaVars => MediaInv'
    BY MediaStepTyped, ChoresFitStep, ImagesFitStep DEF MediaInv
  <1>3. MediaInv => MediaSound
    <2> SUFFICES ASSUME MediaInv PROVE MediaSound
      OBVIOUS
    <2>1. ASSUME slips = 0, NEW k \in Keys PROVE ImageFits(k)
      BY <2>1 DEF MediaInv, ImagesFit
    <2>2. UsedIsKept
      BY <2>1 DEF UsedIsKept, ImageFits, Kept, InUse
    <2>3. RowsHaveObjects
      <3> SUFFICES ASSUME slips = 0, NEW k \in medias \ bucket
                   PROVE  \E h \in Handled(k) : At(h, "forgetting")
        BY DEF RowsHaveObjects
      <3>1. k \in Keys
        BY DEF MediaInv, MediaTypeOK
      <3>2. PICK h \in Workers : Doing(h, k, "forgetting")
        BY <2>1, <3>1 DEF ImageFits, RowBacked
      <3> QED
        BY <3>2, HandledBy DEF Doing, At
    <2>4. NothingLeaks
      <3> SUFFICES ASSUME slips = 0, \A h \in Workers : chore[h] = NoChore, NEW k \in bucket
                   PROVE  k \in medias \/ refs[k] # {} \/ k \in dropped
        BY DEF NothingLeaks, Workers
      <3>1. k \in Keys
        BY DEF MediaInv, MediaTypeOK
      <3> QED
        BY <2>1, <3>1 DEF ImageFits, Accounted, Doing
    <2> QED
      BY <2>2, <2>3, <2>4 DEF MediaInv, MediaSound
  <1> QED
    BY <1>1, <1>2, <1>3, PTL DEF MediaSpec

-----------------------------------------------------------------------------
(* SOTs                                                                    *)

\* An event of whose block a token is stored, and one the listener knows about.
Stored(e) == \E f \in heard : Blocks[f] = Blocks[e] /\ rows[f] > 0
Known(e)  == e \in heard \cup missed \/ Stored(e)

\* Jobs are of events that were heard; the last step comes after the row.
JobsHeard ==
    /\ \A i \in 1..Len(queue) : queue[i].event \in heard
    /\ job # NoJob => job.event \in heard
    /\ job # NoJob /\ job.pc = "updating" => rows[job.event] > 0

\* What the listener has passed, now and when it heard the later ones.
NothingSkipped ==
    /\ from # 0 => \A e \in Events : e < cursor => Known(e)
    /\ \A f \in heard \cup missed, e \in Events : e < f => Known(e)

\* The attempts the waiting jobs of an event still have, and the running one.
Attempted(q, e) == {t \in (1..Len(q)) \X (1..Attempts) :
                        q[t[1]].event = e /\ q[t[1]].attempt <= t[2]}
JobLeft(e) ==
    IF job = NoJob THEN 0
    ELSE IF job.event # e THEN 0
    ELSE IF job.pc = "updating" THEN Attempts - job.attempt ELSE Attempts - job.attempt + 1

\* The subscriptions that may have delivered an event.
Delivered(e) == cuts + (IF from # 0 /\ e < cursor THEN 1 ELSE 0)
RowRoomOf(e) == rows[e] + Cardinality(Attempted(queue, e)) + JobLeft(e)
                    <= Attempts * Delivered(e) + cuts
RowsRoom == \A e \in Events : RowRoomOf(e)

SotInv == SotTypeOK /\ JobsHeard /\ NothingSkipped /\ LastIsStored /\ RowsRoom

-----------------------------------------------------------------------------

Share(j, e) == IF j.event = e THEN Attempts - j.attempt + 1 ELSE 0

\* A product grows with its factors.
LEMMA Products ==
    ASSUME NEW k \in Nat, NEW a \in Nat, NEW b \in Nat, a <= b
    PROVE  k * a \in Nat /\ k * b \in Nat /\ k * a <= k * b /\ k * (a + 1) = k * a + k
  <1>1. k * a \in Nat /\ k * b \in Nat /\ k * (a + 1) = k * a + k
    BY SMT
  <1>2. b - a \in Nat /\ b = a + (b - a)
    OBVIOUS
  <1>3. k * (b - a) \in Nat
    BY <1>2, SMT
  <1>4. k * (a + (b - a)) = k * a + k * (b - a)
    BY <1>2, SMT
  <1> QED
    BY <1>1, <1>2, <1>3, <1>4

\* The attempts a job still has are a number.
LEMMA ShareTyped ==
    ASSUME NEW j \in SotJob, NEW e \in Events
    PROVE  Share(j, e) \in Nat
  <1>1. j.attempt \in 1..Attempts /\ Attempts \in Nat
    BY SotAssumption DEF SotJob
  <1> QED
    BY <1>1 DEF Share

\* The attempts of the waiting jobs are finitely many.
LEMMA AttemptedFinite ==
    ASSUME NEW q \in Seq(SotJob), NEW e
    PROVE  IsFiniteSet(Attempted(q, e)) /\ Cardinality(Attempted(q, e)) \in Nat
  <1>1. Len(q) \in Nat /\ Attempts \in Nat
    BY SotAssumption
  <1>2. IsFiniteSet(1..Len(q)) /\ IsFiniteSet(1..Attempts)
    BY <1>1, FS_Interval
  <1>3. IsFiniteSet((1..Len(q)) \X (1..Attempts))
    BY <1>2, FS_Product
  <1>4. Attempted(q, e) \subseteq (1..Len(q)) \X (1..Attempts)
    BY DEF Attempted
  <1> QED
    BY <1>3, <1>4, FS_Subset, FS_CardinalityType

\* How many attempts a job still has.
LEMMA ShareCounted ==
    ASSUME NEW j \in SotJob
    PROVE  /\ IsFiniteSet(j.attempt..Attempts)
           /\ Cardinality(j.attempt..Attempts) = Attempts - j.attempt + 1
  <1>1. j.attempt \in Int /\ Attempts \in Int /\ ~(j.attempt > Attempts)
    BY SotAssumption DEF SotJob
  <1> QED
    BY <1>1, FS_Interval

\* A job behind the others adds its own attempts.
LEMMA AppendRoom ==
    ASSUME NEW q \in Seq(SotJob), NEW j \in SotJob, NEW e \in Events
    PROVE  /\ Append(q, j) \in Seq(SotJob)
           /\ Cardinality(Attempted(Append(q, j), e)) <= Cardinality(Attempted(q, e)) + Share(j, e)
  <1> DEFINE a == Attempted(q, e)
             b == Attempted(Append(q, j), e)
             s == j.attempt..Attempts
             f == [x \in s |-> <<Len(q) + 1, x>>]
             n == {f[x] : x \in s}
  <1>1. Append(q, j) \in Seq(SotJob) /\ Len(Append(q, j)) = Len(q) + 1 /\ Len(q) \in Nat
    OBVIOUS
  <1>2. /\ IsFiniteSet(a) /\ Cardinality(a) \in Nat
        /\ IsFiniteSet(b) /\ Cardinality(b) \in Nat
    BY <1>1, AttemptedFinite
  <1>3. IsFiniteSet(s) /\ Cardinality(s) = Attempts - j.attempt + 1
    BY ShareCounted
  <1>4. IsFiniteSet(n) /\ Cardinality(n) <= Cardinality(s)
    <2> HIDE DEF f, s
    <2> QED
      BY <1>3, ImageBound
  <1>5. /\ \A i \in 1..Len(q) : Append(q, j)[i] = q[i]
        /\ Append(q, j)[Len(q) + 1] = j
    BY <1>1
  <1>6. CASE j.event = e
    <2>1. ASSUME NEW t \in b PROVE t \in a \cup n
      <3>1. /\ t \in (1..(Len(q) + 1)) \X (1..Attempts)
            /\ Append(q, j)[t[1]].event = e /\ Append(q, j)[t[1]].attempt <= t[2]
        BY <1>1, <2>1 DEF Attempted
      <3>2. CASE t[1] \in 1..Len(q)
        BY <1>5, <3>1, <3>2 DEF Attempted
      <3>3. CASE t[1] = Len(q) + 1
        <4>1. t[2] \in s /\ t = <<Len(q) + 1, t[2]>>
          BY <1>5, <3>1, <3>3 DEF SotJob
        <4>2. t = f[t[2]]
          BY <4>1
        <4> QED
          BY <4>1, <4>2
      <3>4. t[1] \in 1..Len(q) \/ t[1] = Len(q) + 1
        BY <1>1, <3>1
      <3> HIDE DEF a, n
      <3> QED
        BY <3>2, <3>3, <3>4
    <2>2. /\ IsFiniteSet(a \cup n) /\ Cardinality(a \cup n) \in Nat
          /\ Cardinality(a \cup n) <= Cardinality(a) + Cardinality(n)
      <3> HIDE DEF a, n
      <3> QED
        BY <1>2, <1>4, UnionBound
    <2>3. Cardinality(b) <= Cardinality(a \cup n)
      <3> HIDE DEF a, b, n
      <3> QED
        BY <2>1, <2>2, FS_Subset
    <2>4. Cardinality(n) \in Nat
      <3> HIDE DEF n
      <3> QED
        BY <1>4, FS_CardinalityType
    <2>5. Share(j, e) = Cardinality(s)
      BY <1>3, <1>6 DEF Share
    <2> HIDE DEF a, b, n, s
    <2> QED
      <3>1. Cardinality(b) <= Cardinality(a) + Share(j, e)
        <4>1. Cardinality(s) \in Nat
          BY <1>3, FS_CardinalityType
        <4> QED
          BY <1>2, <1>4, <2>2, <2>3, <2>4, <2>5, <4>1
      <3> QED
        BY <1>1, <3>1 DEF a, b
  <1>7. CASE j.event # e
    <2>1. ASSUME NEW t \in b PROVE t \in a
      <3>1. /\ t \in (1..(Len(q) + 1)) \X (1..Attempts)
            /\ Append(q, j)[t[1]].event = e /\ Append(q, j)[t[1]].attempt <= t[2]
        BY <1>1, <2>1 DEF Attempted
      <3>2. t[1] # Len(q) + 1
        BY <1>5, <1>7, <3>1
      <3>3. t[1] \in 1..Len(q)
        BY <1>1, <3>1, <3>2
      <3> QED
        BY <1>5, <3>1, <3>3 DEF Attempted
    <2>2. Cardinality(b) <= Cardinality(a)
      <3> HIDE DEF a, b
      <3> QED
        BY <1>2, <2>1, FS_Subset
    <2>3. Share(j, e) = 0
      BY <1>7 DEF Share
    <2> HIDE DEF a, b
    <2>4. Cardinality(b) <= Cardinality(a) + Share(j, e)
      BY <1>2, <2>2, <2>3
    <2> QED
      BY <1>1, <2>4 DEF a, b
  <1> QED
    BY <1>6, <1>7

\* A job before the others adds its own attempts.
LEMMA PrependRoom ==
    ASSUME NEW q \in Seq(SotJob), NEW j \in SotJob, NEW e \in Events
    PROVE  /\ <<j>> \o q \in Seq(SotJob)
           /\ Cardinality(Attempted(<<j>> \o q, e)) <= Cardinality(Attempted(q, e)) + Share(j, e)
  <1> DEFINE p == <<j>> \o q
             a == Attempted(q, e)
             b == Attempted(p, e)
             s == j.attempt..Attempts
             f == [x \in s |-> <<1, x>>]
             n == {f[x] : x \in s}
             g == [x \in a |-> <<x[1] + 1, x[2]>>]
             m == {g[x] : x \in a}
  <1>1. /\ p \in Seq(SotJob) /\ Len(p) = Len(q) + 1 /\ Len(q) \in Nat
        /\ p[1] = j /\ \A i \in 1..Len(q) : p[i + 1] = q[i]
    OBVIOUS
  <1>2. /\ IsFiniteSet(a) /\ Cardinality(a) \in Nat
        /\ IsFiniteSet(b) /\ Cardinality(b) \in Nat
    BY <1>1, AttemptedFinite
  <1>3. IsFiniteSet(s) /\ Cardinality(s) = Attempts - j.attempt + 1
    BY ShareCounted
  <1>4. IsFiniteSet(n) /\ Cardinality(n) <= Cardinality(s)
    <2> HIDE DEF f, s
    <2> QED
      BY <1>3, ImageBound
  <1>5. IsFiniteSet(m) /\ Cardinality(m) <= Cardinality(a)
    <2> HIDE DEF g, a
    <2> QED
      BY <1>2, ImageBound
  <1>6. ASSUME NEW t \in b PROVE t \in m \/ (j.event = e /\ t \in n)
    <2>1. /\ t \in (1..(Len(q) + 1)) \X (1..Attempts)
          /\ p[t[1]].event = e /\ p[t[1]].attempt <= t[2]
      <3> HIDE DEF p
      <3> QED
        BY <1>1, <1>6 DEF Attempted
    <2>2. CASE t[1] = 1
      <3> HIDE DEF p
      <3>1. t[2] \in s /\ t = <<1, t[2]>> /\ j.event = e
        BY <1>1, <2>1, <2>2 DEF SotJob
      <3>2. t = f[t[2]]
        BY <3>1
      <3> QED
        BY <3>1, <3>2
    <2>3. CASE t[1] # 1
      <3> DEFINE u == <<t[1] - 1, t[2]>>
      <3> HIDE DEF p
      <3>1. t[1] - 1 \in 1..Len(q) /\ t[2] \in 1..Attempts /\ t = <<(t[1] - 1) + 1, t[2]>>
        BY <1>1, <2>1, <2>3
      <3>2. q[t[1] - 1] = p[t[1]]
        BY <1>1, <3>1, <2>1
      <3>3. u \in a
        BY <2>1, <3>1, <3>2 DEF Attempted
      <3>4. t = g[u]
        BY <3>1, <3>3
      <3> QED
        BY <3>3, <3>4
    <2> QED
      BY <2>2, <2>3
  <1>7. Cardinality(n) \in Nat /\ Cardinality(m) \in Nat
    <2> HIDE DEF n, m
    <2> QED
      BY <1>4, <1>5, FS_CardinalityType
  <1>8. CASE j.event = e
    <2>2. /\ IsFiniteSet(m \cup n) /\ Cardinality(m \cup n) \in Nat
          /\ Cardinality(m \cup n) <= Cardinality(m) + Cardinality(n)
      <3> HIDE DEF m, n
      <3> QED
        BY <1>5, <1>4, UnionBound
    <2>3. Cardinality(b) <= Cardinality(m \cup n)
      <3> HIDE DEF m, b, n
      <3> QED
        BY <1>6, <2>2, FS_Subset
    <2>5. Share(j, e) = Cardinality(s)
      BY <1>3, <1>8 DEF Share
    <2> HIDE DEF a, b, n, s, m, p
    <2>6. Cardinality(s) \in Nat
      BY <1>3, FS_CardinalityType
    <2>7. Cardinality(b) <= Cardinality(a) + Share(j, e)
      BY <1>2, <1>4, <1>5, <1>7, <2>2, <2>3, <2>5, <2>6
    <2> QED
      BY <1>1, <2>7 DEF a, b, p
  <1>9. CASE j.event # e
    <2>2. Cardinality(b) <= Cardinality(m)
      <3> HIDE DEF m, b
      <3> QED
        BY <1>5, <1>6, <1>9, FS_Subset
    <2>3. Share(j, e) = 0
      BY <1>9 DEF Share
    <2> HIDE DEF a, b, m, p
    <2>4. Cardinality(b) <= Cardinality(a) + Share(j, e)
      BY <1>2, <1>5, <1>7, <2>2, <2>3
    <2> QED
      BY <1>1, <2>4 DEF a, b, p
  <1> QED
    BY <1>8, <1>9

\* Without its first job, the queue has so many attempts less.
LEMMA TailRoom ==
    ASSUME NEW q \in Seq(SotJob), q # <<>>, NEW e \in Events
    PROVE  /\ Tail(q) \in Seq(SotJob) /\ Head(q) \in SotJob
           /\ Cardinality(Attempted(Tail(q), e)) + Share(Head(q), e)
                <= Cardinality(Attempted(q, e))
  <1> DEFINE p == Tail(q)
             j == Head(q)
             a == Attempted(q, e)
             b == Attempted(p, e)
             s == j.attempt..Attempts
             k == {t \in a : t[1] = 1}
             l == {t \in a : t[1] # 1}
             f == [x \in k |-> x[2]]
             g == [x \in l |-> <<x[1] - 1, x[2]>>]
             n == {f[x] : x \in k}
             m == {g[x] : x \in l}
  <1>1. /\ p \in Seq(SotJob) /\ Len(p) = Len(q) - 1 /\ Len(q) \in Nat /\ Len(q) >= 1
        /\ j \in SotJob /\ q[1] = j /\ \A i \in 1..Len(p) : p[i] = q[i + 1]
    OBVIOUS
  <1>2. /\ IsFiniteSet(a) /\ Cardinality(a) \in Nat
        /\ IsFiniteSet(b) /\ Cardinality(b) \in Nat
    BY <1>1, AttemptedFinite
  <1>3. IsFiniteSet(s) /\ Cardinality(s) = Attempts - j.attempt + 1
    BY <1>1, ShareCounted
  <1>4. /\ IsFiniteSet(k) /\ IsFiniteSet(l)
        /\ Cardinality(k) \in Nat /\ Cardinality(l) \in Nat
        /\ Cardinality(a) = Cardinality(k) + Cardinality(l)
    <2>1. a = k \cup l /\ k \cap l = {}
      OBVIOUS
    <2>2. IsFiniteSet(k) /\ IsFiniteSet(l)
      <3>1. k \subseteq a /\ l \subseteq a
        OBVIOUS
      <3> HIDE DEF a, k, l
      <3> QED
        BY <1>2, <3>1, FS_Subset
    <2> HIDE DEF a, k, l
    <2>3. Cardinality(k \cap l) = 0
      BY <2>1, FS_EmptySet
    <2>4. Cardinality(k \cup l) = Cardinality(k) + Cardinality(l) - Cardinality(k \cap l)
      BY <2>2, FS_Union
    <2>5. Cardinality(k) \in Nat /\ Cardinality(l) \in Nat
      BY <2>2, FS_CardinalityType
    <2> QED
      BY <2>1, <2>2, <2>3, <2>4, <2>5
  <1>5. IsFiniteSet(m) /\ Cardinality(m) <= Cardinality(l)
    <2> HIDE DEF g, l
    <2> QED
      BY <1>4, ImageBound
  <1>6. IsFiniteSet(n) /\ Cardinality(n) <= Cardinality(k)
    <2> HIDE DEF f, k
    <2> QED
      BY <1>4, ImageBound
  <1>7. ASSUME NEW t \in b PROVE t \in m
    <2> DEFINE u == <<t[1] + 1, t[2]>>
    <2>1. /\ t \in (1..Len(p)) \X (1..Attempts)
          /\ p[t[1]].event = e /\ p[t[1]].attempt <= t[2]
      <3> HIDE DEF p
      <3> QED
        BY <1>7 DEF Attempted
    <2> HIDE DEF p, j
    <2>2. t[1] + 1 \in 1..Len(q) /\ t[2] \in 1..Attempts /\ t[1] + 1 # 1
          /\ t = <<(t[1] + 1) - 1, t[2]>>
      BY <1>1, <2>1
    <2>3. q[t[1] + 1] = p[t[1]]
      BY <1>1, <2>1
    <2>4. u \in a
      BY <2>1, <2>2, <2>3 DEF Attempted
    <2>5. u \in l
      BY <2>2, <2>4
    <2>6. t = g[u]
      BY <2>2, <2>5
    <2> QED
      BY <2>5, <2>6
  <1>8. Cardinality(m) \in Nat /\ Cardinality(n) \in Nat
    <2> HIDE DEF m, n
    <2> QED
      BY <1>5, <1>6, FS_CardinalityType
  <1>9. Cardinality(b) <= Cardinality(m)
    <2> HIDE DEF m, b
    <2> QED
      BY <1>5, <1>7, FS_Subset
  <1>10. CASE j.event = e
    <2>1. ASSUME NEW x \in s PROVE x \in n
      <3> DEFINE u == <<1, x>>
      <3>1. x \in 1..Attempts /\ j.attempt <= x /\ 1 \in 1..Len(q)
        <4> HIDE DEF j, p
        <4> QED
          BY SotAssumption, <1>1, <2>1 DEF SotJob
      <3> HIDE DEF j, p
      <3>2. u \in a
        BY <1>1, <1>10, <3>1 DEF Attempted
      <3>3. u \in k /\ f[u] = x
        BY <3>2
      <3> QED
        BY <3>3
    <2>2. Cardinality(s) <= Cardinality(n)
      <3> HIDE DEF s, n
      <3> QED
        BY <1>6, <2>1, FS_Subset
    <2>3. Share(j, e) = Cardinality(s)
      BY <1>3, <1>10 DEF Share
    <2> HIDE DEF p, j, a, b, s, k, l, n, m
    <2>4. Cardinality(s) \in Nat
      BY <1>3, FS_CardinalityType
    <2>5. Cardinality(b) + Share(j, e) <= Cardinality(a)
      BY <1>2, <1>4, <1>5, <1>6, <1>8, <1>9, <2>2, <2>3, <2>4
    <2> QED
      BY <1>1, <2>5 DEF a, b, p, j
  <1>11. CASE j.event # e
    <2>1. Share(j, e) = 0
      BY <1>11 DEF Share
    <2> HIDE DEF p, j, a, b, s, k, l, n, m
    <2>2. Cardinality(b) + Share(j, e) <= Cardinality(a)
      BY <1>2, <1>4, <1>5, <1>8, <1>9, <2>1
    <2> QED
      BY <1>1, <2>2 DEF a, b, p, j
  <1> QED
    BY <1>10, <1>11

-----------------------------------------------------------------------------

\* The running job has the fields of one, also at its next step.
LEMMA RunningShape ==
    ASSUME SotTypeOK, job # NoJob
    PROVE  /\ job \in Running
           /\ job.pc \in {"fetching", "saving", "updating"}
           /\ job.event \in Events /\ job.attempt \in 1..Attempts
           /\ job.stalls \in 0..MaxStalls
           /\ [event |-> job.event, attempt |-> job.attempt, stalls |-> job.stalls] \in SotJob
           /\ \A c : /\ [job EXCEPT !.pc = c].pc = c
                     /\ [job EXCEPT !.pc = c].event = job.event
                     /\ [job EXCEPT !.pc = c].attempt = job.attempt
           /\ \A c \in {"fetching", "saving", "updating"} :
                 [job EXCEPT !.pc = c] \in Running /\ [job EXCEPT !.pc = c] # NoJob
  <1>1. job \in Running
    BY DEF SotTypeOK
  <1>2. /\ job.pc \in {"fetching", "saving", "updating"}
        /\ job.event \in Events /\ job.attempt \in 1..Attempts
        /\ job.stalls \in 0..MaxStalls
    BY <1>1 DEF Running
  <1>3. \A c : /\ [job EXCEPT !.pc = c].pc = c
               /\ [job EXCEPT !.pc = c].event = job.event
               /\ [job EXCEPT !.pc = c].attempt = job.attempt
    BY <1>1 DEF Running
  <1>4. ASSUME NEW c \in {"fetching", "saving", "updating"}
        PROVE  [job EXCEPT !.pc = c] \in Running /\ [job EXCEPT !.pc = c] # NoJob
    <2>1. [job EXCEPT !.pc = c] \in Running
      BY <1>1 DEF Running
    <2>2. [job EXCEPT !.pc = c].pc # "none"
      BY <1>3
    <2> QED
      BY <2>1, <2>2 DEF NoJob
  <1> QED
    BY <1>1, <1>2, <1>3, <1>4 DEF SotJob

\* What becomes of a job that stalls.
StalledJob == [event |-> job.event, attempt |-> job.attempt, stalls |-> job.stalls + 1]
LEMMA StalledShape ==
    ASSUME SotTypeOK, Restart
    PROVE  /\ \/ queue' = queue
              \/ /\ queue' = <<StalledJob>> \o queue
                 /\ StalledJob \in SotJob /\ job # NoJob
           /\ job # NoJob => job.event \in Events
           /\ spent' \subseteq Events
           /\ StalledJob.event = job.event /\ StalledJob.attempt = job.attempt
  <1>1. StalledJob.event = job.event /\ StalledJob.attempt = job.attempt
    BY DEF StalledJob
  <1>2. job # NoJob => /\ job.event \in Events /\ job.attempt \in 1..Attempts
                       /\ job.stalls \in 0..MaxStalls
    BY RunningShape
  <1>3. CASE job = NoJob
    BY <1>1, <1>3 DEF Restart, SotTypeOK
  <1>4. CASE job # NoJob /\ job.stalls < MaxStalls
    <2>1. job.stalls + 1 \in 0..MaxStalls /\ job.stalls # MaxStalls
      BY SotAssumption, <1>2, <1>4
    <2>2. StalledJob \in SotJob
      BY <1>2, <1>4, <2>1 DEF StalledJob, SotJob
    <2>3. queue' = <<StalledJob>> \o queue /\ spent' = spent
      BY <1>4, <2>1 DEF Restart, StalledJob
    <2> QED
      BY <1>1, <1>2, <1>4, <2>2, <2>3 DEF SotTypeOK
  <1>5. CASE job # NoJob /\ job.stalls = MaxStalls
    BY <1>1, <1>2, <1>5 DEF Restart, SotTypeOK
  <1> QED
    BY <1>3, <1>4, <1>5 DEF Restart

\* What is at a step runs.
LEMMA PcRuns ==
    ASSUME NEW c, c # "none", job.pc = c
    PROVE  job # NoJob
  BY DEF NoJob

\* The events of the blocks up to the last stored one come before the others.
LEMMA CursorFits ==
    ASSUME SotTypeOK
    PROVE  /\ Len(Blocks) \in Nat
           /\ 1 + Cardinality({e \in Events : Blocks[e] <= last}) \in 1..(Len(Blocks) + 1)
           /\ \A e \in Events : e < 1 + Cardinality({d \in Events : Blocks[d] <= last})
                                    => Blocks[e] <= last
  <1> DEFINE s == {e \in Events : Blocks[e] <= last}
  <1>1. Len(Blocks) \in Nat
    BY SotAssumption
  <1>2. IsFiniteSet(Events) /\ Cardinality(Events) = Len(Blocks)
    <2>1. /\ IsFiniteSet(1..Len(Blocks))
          /\ Cardinality(1..Len(Blocks)) = IF 1 > Len(Blocks) THEN 0 ELSE Len(Blocks) - 1 + 1
      BY <1>1, FS_Interval
    <2> QED
      BY <1>1, <2>1 DEF Events
  <1>3. IsFiniteSet(s) /\ Cardinality(s) \in Nat /\ Cardinality(s) <= Len(Blocks)
    <2>1. s \subseteq Events
      OBVIOUS
    <2> HIDE DEF s
    <2>2. IsFiniteSet(s) /\ Cardinality(s) <= Cardinality(Events)
      BY <1>2, <2>1, FS_Subset
    <2> QED
      BY <1>2, <2>2, FS_CardinalityType
  <1>4. ASSUME NEW e \in Events, e < 1 + Cardinality(s), ~(Blocks[e] <= last)
        PROVE  FALSE
    <2>1. e \in Nat /\ e >= 1
      BY <1>1 DEF Events
    <2>2. s \subseteq 1..(e - 1)
      <3>1. ASSUME NEW d \in s PROVE d \in 1..(e - 1)
        <4>1. d \in 1..Len(Blocks) /\ e \in 1..Len(Blocks) /\ Blocks[d] <= last
          BY <3>1 DEF Events
        <4>2. d # e
          BY <1>4, <4>1
        <4>3. ~(e < d)
          <5>1. e < d => Blocks[e] <= Blocks[d]
            BY SotAssumption, <4>1
          <5>2. Blocks[e] \in Nat /\ Blocks[d] \in Nat /\ last \in Nat
            BY SotAssumption, <4>1 DEF SotTypeOK
          <5> QED
            BY <1>4, <4>1, <5>1, <5>2
        <4> QED
          BY <1>1, <4>1, <4>2, <4>3
      <3> QED
        BY <3>1
    <2>3. IsFiniteSet(1..(e - 1)) /\ Cardinality(1..(e - 1)) = e - 1
      <3>1. /\ IsFiniteSet(1..(e - 1))
            /\ Cardinality(1..(e - 1)) = IF 1 > e - 1 THEN 0 ELSE (e - 1) - 1 + 1
        BY <2>1, FS_Interval
      <3> QED
        BY <2>1, <3>1
    <2> HIDE DEF s
    <2>4. Cardinality(s) <= Cardinality(1..(e - 1))
      BY <2>2, <2>3, FS_Subset
    <2> QED
      BY <1>3, <1>4, <2>1, <2>3, <2>4
  <1> QED
    <2>1. 1 + Cardinality(s) \in 1..(Len(Blocks) + 1)
      <3> HIDE DEF s
      <3> QED
        BY <1>1, <1>3
    <2> QED
      BY <1>1, <1>4, <2>1

\* Every step keeps the types.
LEMMA TypeStep ==
    ASSUME SotTypeOK, JobsHeard, SotNext
    PROVE  SotTypeOK'
  <1>1. ASSUME Mine PROVE SotTypeOK'
    BY <1>1, CursorFits DEF Mine, SotTypeOK
  <1>2. ASSUME SyncSotdata PROVE SotTypeOK'
    BY <1>2, CursorFits DEF SyncSotdata, SotTypeOK
  <1>3. ASSUME AddBlock PROVE SotTypeOK'
    <2>1. [event |-> cursor, attempt |-> 1, stalls |-> 0] \in SotJob
      BY SotAssumption, <1>3, CursorFits DEF AddBlock, SotTypeOK, SotJob, Events
    <2>2. queue' \in Seq(SotJob)
      BY <1>3, <2>1, AppendRoom DEF AddBlock, SotTypeOK
    <2>3. cursor' \in 1..(Len(Blocks) + 1) /\ heard' \subseteq 1..mined
      BY <1>3, CursorFits DEF AddBlock, SotTypeOK
    <2> QED
      BY <1>3, <2>2, <2>3 DEF AddBlock, SotTypeOK
  <1>4. ASSUME MissBlock PROVE SotTypeOK'
    <2>1. /\ cursor' \in 1..(Len(Blocks) + 1) /\ missed' \subseteq 1..mined
          /\ misses' \in 0..MaxTroubles
      BY SotAssumption, <1>4, CursorFits DEF MissBlock, SotTypeOK
    <2> QED
      BY <1>4, <2>1 DEF MissBlock, SotTypeOK
  <1>5. ASSUME Disconnect PROVE SotTypeOK'
    BY SotAssumption, <1>5 DEF Disconnect, SotTypeOK
  <1>6. ASSUME Restart PROVE SotTypeOK'
    <2>1. queue' \in Seq(SotJob) /\ spent' \subseteq Events
      <3>1. queue' = queue \/ (queue' = <<StalledJob>> \o queue /\ StalledJob \in SotJob)
        BY <1>6, StalledShape
      <3>2. StalledJob \in SotJob => <<StalledJob>> \o queue \in Seq(SotJob)
        BY PrependRoom DEF SotTypeOK
      <3> QED
        BY <1>6, <3>1, <3>2, StalledShape DEF SotTypeOK
    <2>2. cuts' \in 0..MaxTroubles /\ from' \in Nat /\ job' \in Running \cup {NoJob}
      BY SotAssumption, <1>6 DEF Restart, SotTypeOK
    <2> QED
      BY <1>6, <2>1, <2>2 DEF Restart, SotTypeOK
  <1>7. ASSUME HandleBlock PROVE SotTypeOK'
    <2>1. Head(queue) \in SotJob /\ Tail(queue) \in Seq(SotJob)
      BY <1>7 DEF HandleBlock, SotTypeOK
    <2>2. job' \in Running
      BY <1>7, <2>1 DEF HandleBlock, Running, SotJob
    <2> QED
      BY <1>7, <2>1, <2>2 DEF HandleBlock, SotTypeOK
  <1>8. ASSUME FetchSot PROVE SotTypeOK'
    <2>1. job' \in Running
      BY <1>8, RunningShape, PcRuns DEF FetchSot
    <2> QED
      BY <1>8, <2>1 DEF FetchSot, SotTypeOK
  <1>9. ASSUME AddSotData PROVE SotTypeOK'
    <2>1. job' \in Running /\ job.event \in Events
      BY <1>9, RunningShape, PcRuns DEF AddSotData
    <2>2. rows' \in [Events -> Nat]
      <3>1. rows \in [Events -> Nat] /\ rows' = [rows EXCEPT ![job.event] = @ + 1]
        BY <1>9 DEF AddSotData, SotTypeOK
      <3> QED
        BY <2>1, <3>1
    <2> QED
      BY <1>9, <2>1, <2>2 DEF AddSotData, SotTypeOK
  <1>10. ASSUME UpdateLastNftBlock PROVE SotTypeOK'
    <2>1. job.event \in Events
      BY <1>10, RunningShape, PcRuns DEF UpdateLastNftBlock
    <2>2. last' \in Nat
      BY SotAssumption, <1>10, <2>1 DEF UpdateLastNftBlock, Events
    <2> QED
      BY <1>10, <2>2 DEF UpdateLastNftBlock, SotTypeOK
  <1>11. ASSUME FailJob PROVE SotTypeOK'
    <2>1. job.event \in Events /\ job.attempt \in 1..Attempts /\ job.stalls \in 0..MaxStalls
      BY <1>11, RunningShape DEF FailJob
    <2>2. misses' \in 0..MaxTroubles
      BY SotAssumption, <1>11 DEF FailJob, SotTypeOK
    <2>3. queue' \in Seq(SotJob) /\ spent' \subseteq Events
      <3>1. CASE job.attempt < Attempts
        <4> DEFINE j == [event |-> job.event, attempt |-> job.attempt + 1, stalls |-> job.stalls]
        <4>1. j \in SotJob
          BY SotAssumption, <2>1, <3>1 DEF SotJob
        <4>2. queue' = Append(queue, j) /\ spent' = spent
          BY <1>11, <3>1 DEF FailJob, Retry
        <4> HIDE DEF j
        <4> QED
          BY <4>1, <4>2, <2>1, AppendRoom DEF SotTypeOK
      <3>2. CASE ~(job.attempt < Attempts)
        BY <1>11, <2>1, <3>2 DEF FailJob, SotTypeOK
      <3> QED
        BY <3>1, <3>2
    <2> QED
      BY <1>11, <2>2, <2>3 DEF FailJob, SotTypeOK
  <1> QED
    BY <1>1, <1>2, <1>3, <1>4, <1>5, <1>6, <1>7, <1>8, <1>9, <1>10, <1>11
    DEF SotNext, JobStep

\* Every step keeps jobs those of events that were heard; what was heard, missed or
\* stored remains so.
LEMMA HeardStep ==
    ASSUME SotTypeOK, JobsHeard, SotNext
    PROVE  /\ JobsHeard'
           /\ heard \subseteq heard' /\ missed \subseteq missed'
           /\ \A e \in Events : rows[e] > 0 => rows'[e] > 0
  <1>0. /\ rows \in [Events -> Nat] /\ queue \in Seq(SotJob) /\ Len(queue) \in Nat
        /\ \A i \in 1..Len(queue) : queue[i].event \in heard
    BY DEF SotTypeOK, JobsHeard
  <1>1. ASSUME Mine \/ SyncSotdata \/ MissBlock \/ Disconnect
        PROVE  JobsHeard' /\ heard' = heard /\ missed \subseteq missed' /\ rows' = rows
    <2>1. /\ queue' = queue /\ job' = job /\ heard' = heard /\ missed \subseteq missed'
          /\ rows' = rows
      BY <1>1 DEF Mine, SyncSotdata, MissBlock, Disconnect
    <2> QED
      BY <2>1 DEF JobsHeard
  <1>2. ASSUME AddBlock
        PROVE  JobsHeard' /\ heard \subseteq heard' /\ missed' = missed /\ rows' = rows
    <2> DEFINE j == [event |-> cursor, attempt |-> 1, stalls |-> 0]
    <2>1. /\ heard' = heard \cup {cursor} /\ job' = job /\ rows' = rows /\ missed' = missed
          /\ queue' = Append(queue, j) /\ j.event = cursor
      BY <1>2 DEF AddBlock
    <2> HIDE DEF j
    <2>2. j \in SotJob
      BY SotAssumption, <1>2, CursorFits DEF j, AddBlock, SotTypeOK, SotJob, Events
    <2>3. ASSUME NEW i \in 1..Len(queue') PROVE queue'[i].event \in heard'
      <3>1. Len(queue') = Len(queue) + 1
        BY <1>0, <2>1, <2>2
      <3>2. CASE i \in 1..Len(queue)
        <4>1. queue'[i] = queue[i]
          BY <1>0, <2>1, <2>2, <3>2
        <4> QED
          BY <1>0, <2>1, <3>2, <4>1
      <3>3. CASE i = Len(queue) + 1
        <4>1. queue'[i] = j
          BY <1>0, <2>1, <2>2, <3>3
        <4> QED
          BY <2>1, <4>1
      <3>4. i \in 1..Len(queue) \/ i = Len(queue) + 1
        BY <1>0, <3>1
      <3> QED
        BY <3>2, <3>3, <3>4
    <2> QED
      BY <2>1, <2>3 DEF JobsHeard
  <1>3. ASSUME Restart
        PROVE  JobsHeard' /\ heard' = heard /\ missed' = missed /\ rows' = rows
    <2>1. heard' = heard /\ rows' = rows /\ missed' = missed /\ job' = NoJob
      BY <1>3 DEF Restart
    <2>2. \A i \in 1..Len(queue') : queue'[i].event \in heard
      <3>1. CASE queue' = queue
        BY <1>0, <3>1
      <3>2. CASE queue' # queue
        <4> DEFINE j == StalledJob
        <4>1. j \in SotJob /\ j.event \in heard /\ queue' = <<j>> \o queue
          BY <1>3, <3>2, StalledShape DEF JobsHeard
        <4> HIDE DEF j
        <4>2. ASSUME NEW i \in 1..Len(queue') PROVE queue'[i].event \in heard
          <5>1. Len(queue') = Len(queue) + 1
            BY <1>0, <4>1
          <5>2. CASE i = 1
            <6>1. queue'[i] = j
              BY <1>0, <4>1, <5>2
            <6> QED
              BY <4>1, <6>1
          <5>3. CASE i # 1
            <6>1. i - 1 \in 1..Len(queue)
              BY <1>0, <5>1, <5>3
            <6>2. queue'[i] = queue[i - 1]
              BY <1>0, <4>1, <5>1, <5>3, <6>1
            <6> QED
              BY <1>0, <6>1, <6>2
          <5> QED
            BY <5>2, <5>3
        <4> QED
          BY <4>2
      <3> QED
        BY <3>1, <3>2
    <2> QED
      BY <2>1, <2>2 DEF JobsHeard
  <1>4. ASSUME HandleBlock
        PROVE  JobsHeard' /\ heard' = heard /\ missed' = missed /\ rows' = rows
    <2>1. /\ heard' = heard /\ rows' = rows /\ missed' = missed
          /\ queue # <<>> /\ queue' = Tail(queue)
          /\ job'.event = Head(queue).event /\ job'.pc = "fetching"
      BY <1>4 DEF HandleBlock
    <2>2. Head(queue) = queue[1] /\ 1 \in 1..Len(queue)
      BY <1>0, <2>1
    <2>3. job'.event \in heard
      BY <1>0, <2>1, <2>2
    <2>4. ASSUME NEW i \in 1..Len(queue') PROVE queue'[i].event \in heard
      <3>1. i + 1 \in 1..Len(queue) /\ queue'[i] = queue[i + 1]
        BY <1>0, <2>1
      <3> QED
        BY <1>0, <3>1
    <2> QED
      BY <2>1, <2>3, <2>4 DEF JobsHeard
  <1>5. ASSUME FetchSot
        PROVE  JobsHeard' /\ heard' = heard /\ missed' = missed /\ rows' = rows
    <2>1. /\ job # NoJob /\ job'.event = job.event /\ job'.pc = "saving"
          /\ queue' = queue /\ heard' = heard /\ missed' = missed /\ rows' = rows
      BY <1>5, RunningShape, PcRuns DEF FetchSot
    <2> QED
      BY <1>0, <2>1 DEF JobsHeard
  <1>6. ASSUME AddSotData
        PROVE  /\ JobsHeard' /\ heard' = heard /\ missed' = missed
               /\ \A e \in Events : rows[e] > 0 => rows'[e] > 0
    <2>1. /\ job # NoJob /\ job.event \in Events /\ job'.event = job.event
          /\ queue' = queue /\ heard' = heard /\ missed' = missed
          /\ rows' = [rows EXCEPT ![job.event] = @ + 1]
      BY <1>6, RunningShape, PcRuns DEF AddSotData
    <2>2. rows'[job.event] > 0 /\ \A e \in Events : rows[e] > 0 => rows'[e] > 0
      BY <1>0, <2>1
    <2> QED
      BY <1>0, <2>1, <2>2 DEF JobsHeard
  <1>7. ASSUME UpdateLastNftBlock
        PROVE  JobsHeard' /\ heard' = heard /\ missed' = missed /\ rows' = rows
    BY <1>7 DEF UpdateLastNftBlock, JobsHeard
  <1>8. ASSUME FailJob
        PROVE  JobsHeard' /\ heard' = heard /\ missed' = missed /\ rows' = rows
    <2>1. heard' = heard /\ rows' = rows /\ missed' = missed /\ job' = NoJob /\ job # NoJob
      BY <1>8 DEF FailJob
    <2>2. \A i \in 1..Len(queue') : queue'[i].event \in heard
      <3>1. CASE ~(job.attempt < Attempts)
        BY <1>0, <1>8, <3>1 DEF FailJob
      <3>2. CASE job.attempt < Attempts
        <4> DEFINE j == [event |-> job.event, attempt |-> job.attempt + 1, stalls |-> job.stalls]
        <4>1. j \in SotJob
          BY SotAssumption, <2>1, <3>2, RunningShape DEF SotJob
        <4>2. j.event \in heard /\ queue' = Append(queue, j)
          BY <1>8, <2>1, <3>2 DEF FailJob, Retry, JobsHeard
        <4> HIDE DEF j
        <4>3. ASSUME NEW i \in 1..Len(queue') PROVE queue'[i].event \in heard
          <5>1. Len(queue') = Len(queue) + 1
            BY <1>0, <4>1, <4>2
          <5>2. CASE i \in 1..Len(queue)
            <6>1. queue'[i] = queue[i]
              BY <1>0, <4>1, <4>2, <5>2
            <6> QED
              BY <1>0, <5>2, <6>1
          <5>3. CASE i = Len(queue) + 1
            <6>1. queue'[i] = j
              BY <1>0, <4>1, <4>2, <5>3
            <6> QED
              BY <4>2, <6>1
          <5>4. i \in 1..Len(queue) \/ i = Len(queue) + 1
            BY <1>0, <5>1
          <5> QED
            BY <5>2, <5>3, <5>4
        <4> QED
          BY <4>3
      <3> QED
        BY <3>1, <3>2
    <2> QED
      BY <2>1, <2>2 DEF JobsHeard
  <1> QED
    BY <1>1, <1>2, <1>3, <1>4, <1>5, <1>6, <1>7, <1>8 DEF SotNext, JobStep

-----------------------------------------------------------------------------

\* Every step keeps the events that the listener has passed known, or their block
\* stored.
LEMMA SkippedStep ==
    ASSUME SotTypeOK, JobsHeard, NothingSkipped, LastIsStored, SotNext
    PROVE  NothingSkipped'
  <1>0. /\ Len(Blocks) \in Nat /\ mined \in 0..Len(Blocks) /\ cursor \in Nat
        /\ heard \subseteq 1..mined /\ missed \subseteq 1..mined
    BY CursorFits DEF SotTypeOK
  <1>1. /\ heard \subseteq heard' /\ missed \subseteq missed'
        /\ \A e \in Events : rows[e] > 0 => rows'[e] > 0
    BY HeardStep
  <1>2. heard \subseteq Events /\ missed \subseteq Events
    BY <1>0 DEF Events
  <1>3. ASSUME NEW e \in Events, Known(e) PROVE Known(e)'
    <2>1. CASE e \in heard \cup missed
      BY <1>1, <2>1 DEF Known
    <2>2. CASE Stored(e)
      <3>1. PICK f \in heard : Blocks[f] = Blocks[e] /\ rows[f] > 0
        BY <2>2 DEF Stored
      <3>2. f \in heard' /\ rows'[f] > 0
        BY <1>1, <1>2, <3>1
      <3> QED
        BY <3>1, <3>2 DEF Known, Stored
    <2> QED
      BY <1>3, <2>1, <2>2 DEF Known
  <1>4. ASSUME heard' = heard, missed' = missed, from' = from \/ from' = 0, cursor' = cursor
        PROVE  NothingSkipped'
    <2>1. ASSUME from' # 0, NEW e \in Events, e < cursor' PROVE Known(e)'
      <3>1. Known(e)
        BY <1>4, <2>1 DEF NothingSkipped
      <3> QED
        BY <1>3, <3>1
    <2>2. ASSUME NEW f \in heard' \cup missed', NEW e \in Events, e < f PROVE Known(e)'
      <3>1. Known(e)
        BY <1>4, <2>2 DEF NothingSkipped
      <3> QED
        BY <1>3, <3>1
    <2> QED
      BY <2>1, <2>2 DEF NothingSkipped, Events
  <1>5. ASSUME SyncSotdata PROVE NothingSkipped'
    <2>1. /\ cursor' = 1 + Cardinality({d \in Events : Blocks[d] <= last})
          /\ heard' = heard /\ missed' = missed
      BY <1>5 DEF SyncSotdata
    <2>2. ASSUME NEW e \in Events, e < cursor' PROVE Known(e)
      <3>1. Blocks[e] <= last
        BY <2>1, <2>2, CursorFits
      <3>2. Blocks[e] \in Nat /\ Blocks[e] # 0 /\ last \in Nat
        BY SotAssumption DEF Events, SotTypeOK
      <3>3. PICK f \in heard : Blocks[f] = last /\ rows[f] > 0
        BY <3>1, <3>2 DEF LastIsStored
      <3>4. CASE Blocks[e] = last
        BY <3>3, <3>4 DEF Known, Stored
      <3>5. CASE Blocks[e] # last
        <4>1. f \in 1..Len(Blocks) /\ e \in 1..Len(Blocks)
          BY <1>2, <3>3 DEF Events
        <4>2. f < e => Blocks[f] <= Blocks[e]
          BY SotAssumption, <4>1
        <4>3. e < f
          BY <3>1, <3>2, <3>3, <3>5, <4>1, <4>2
        <4> QED
          BY <4>3 DEF NothingSkipped
      <3> QED
        BY <3>4, <3>5
    <2>3. ASSUME from' # 0, NEW e \in Events, e < cursor' PROVE Known(e)'
      BY <1>3, <2>2, <2>3
    <2>4. ASSUME NEW f \in heard' \cup missed', NEW e \in Events, e < f PROVE Known(e)'
      <3>1. Known(e)
        BY <2>1, <2>4 DEF NothingSkipped
      <3> QED
        BY <1>3, <3>1
    <2> QED
      BY <2>3, <2>4 DEF NothingSkipped, Events
  <1>6. ASSUME AddBlock \/ MissBlock PROVE NothingSkipped'
    <2>1. /\ from # 0 /\ cursor' = cursor + 1
          /\ cursor \in heard' \cup missed'
          /\ heard' \cup missed' \subseteq heard \cup missed \cup {cursor}
      BY <1>6 DEF AddBlock, MissBlock
    <2>2. ASSUME NEW e \in Events, e < cursor PROVE Known(e)'
      <3>1. Known(e)
        BY <2>1, <2>2 DEF NothingSkipped
      <3> QED
        BY <1>3, <3>1
    <2>3. ASSUME NEW e \in Events, e = cursor PROVE Known(e)'
      BY <2>1, <2>3 DEF Known
    <2>4. ASSUME from' # 0, NEW e \in Events, e < cursor' PROVE Known(e)'
      <3>1. e < cursor \/ e = cursor
        BY <1>0, <2>1, <2>4 DEF Events
      <3> QED
        BY <2>2, <2>3, <3>1
    <2>5. ASSUME NEW f \in heard' \cup missed', NEW e \in Events, e < f PROVE Known(e)'
      <3>1. CASE f = cursor
        BY <2>2, <2>5, <3>1
      <3>2. CASE f \in heard \cup missed
        <4>1. Known(e)
          BY <2>5, <3>2 DEF NothingSkipped
        <4> QED
          BY <1>3, <4>1
      <3> QED
        BY <2>1, <2>5, <3>1, <3>2
    <2> QED
      BY <2>4, <2>5 DEF NothingSkipped, Events
  <1>7. ASSUME Mine \/ Disconnect \/ Restart \/ JobStep \/ FailJob PROVE NothingSkipped'
    <2>1. /\ heard' = heard /\ missed' = missed /\ cursor' = cursor
          /\ from' = from \/ from' = 0
      BY <1>7
      DEF Mine, Disconnect, Restart, FailJob, JobStep,
          HandleBlock, FetchSot, AddSotData, UpdateLastNftBlock
    <2> QED
      BY <1>4, <2>1
  <1> QED
    BY <1>5, <1>6, <1>7 DEF SotNext

\* Every step keeps the last block one of a stored token.
LEMMA LastStep ==
    ASSUME SotTypeOK, JobsHeard, LastIsStored, SotNext
    PROVE  LastIsStored'
  <1>1. /\ heard \subseteq heard' /\ heard \subseteq Events
        /\ \A e \in Events : rows[e] > 0 => rows'[e] > 0
    <2>1. heard \subseteq Events
      BY CursorFits DEF SotTypeOK, Events
    <2> QED
      BY <2>1, HeardStep
  <1>2. CASE last' = last
    <2>1. ASSUME last # 0 PROVE \E e \in heard' : Blocks[e] = last' /\ rows'[e] > 0
      <3>1. PICK e \in heard : Blocks[e] = last /\ rows[e] > 0
        BY <2>1 DEF LastIsStored
      <3> QED
        BY <1>1, <1>2, <3>1
    <2> QED
      BY <1>2, <2>1 DEF LastIsStored
  <1>3. CASE last' # last
    <2>1. UpdateLastNftBlock
      BY <1>3
      DEF SotNext, Mine, SyncSotdata, AddBlock, MissBlock, Disconnect, Restart, FailJob, JobStep,
          HandleBlock, FetchSot, AddSotData
    <2>2. /\ job # NoJob /\ job.pc = "updating" /\ last' = Blocks[job.event]
          /\ heard' = heard /\ rows' = rows
      BY <2>1, PcRuns DEF UpdateLastNftBlock
    <2>3. job.event \in heard /\ rows[job.event] > 0
      BY <2>2 DEF JobsHeard
    <2> QED
      BY <2>2, <2>3 DEF LastIsStored
  <1> QED
    BY <1>2, <1>3

\* The attempts that the running job still has.
LEMMA LeftShape ==
    ASSUME SotTypeOK, NEW e \in Events
    PROVE  /\ JobLeft(e) \in Nat
           /\ job # NoJob =>
                JobLeft(e) = IF job.event # e THEN 0
                             ELSE IF job.pc = "updating" THEN Attempts - job.attempt
                             ELSE Attempts - job.attempt + 1
           /\ job = NoJob => JobLeft(e) = 0
  <1>1. job # NoJob => job.attempt \in 1..Attempts
    BY RunningShape
  <1>2. Attempts \in Nat
    BY SotAssumption
  <1> QED
    BY <1>1, <1>2 DEF JobLeft

\* What an event has had and may still have grows as its deliveries do.
LEMMA RoomKept ==
    ASSUME NEW p \in Nat, NEW d \in Nat, NEW d1 \in Nat, d <= d1,
           NEW c \in Nat, NEW c1 \in Nat, c <= c1, NEW n \in Nat, NEW n1 \in Nat,
           n <= p * d + c,
           \/ n1 <= n
           \/ n1 <= n + 1 /\ c < c1
           \/ n1 <= n + p /\ d < d1
    PROVE  n1 <= p * d1 + c1
  <1>2. /\ p * d \in Nat /\ p * d1 \in Nat /\ p * d <= p * d1
    BY Products
  <1>3. CASE n1 <= n + p /\ d < d1
    <2>1. p * (d + 1) = p * d + p
      BY Products
    <2>2. d + 1 \in Nat /\ d + 1 <= d1
      BY <1>3
    <2>3. p * (d + 1) \in Nat /\ p * (d + 1) <= p * d1
      BY <2>2, Products
    <2> QED
      BY <1>2, <1>3, <2>1, <2>3
  <1>4. CASE \/ n1 <= n
             \/ n1 <= n + 1 /\ c < c1
    BY <1>2, <1>4
  <1> QED
    BY <1>3, <1>4

\* Every step keeps the rows, there and to come, within attempts, deliveries and
\* stops.
LEMMA RoomStep ==
    ASSUME SotTypeOK, SotTypeOK', JobsHeard, RowsRoom, SotNext
    PROVE  RowsRoom'
  <1> SUFFICES ASSUME NEW e \in Events PROVE RowRoomOf(e)'
    BY DEF RowsRoom, Events
  <1> DEFINE a == Cardinality(Attempted(queue, e))
             b == Cardinality(Attempted(queue', e))
             l == JobLeft(e)
             k == JobLeft(e)'
             n == rows[e] + a + l
             m == rows'[e] + b + k
             d == Delivered(e)
             g == Delivered(e)'
  <1>1. /\ a \in Nat /\ b \in Nat /\ l \in Nat /\ k \in Nat
        /\ rows[e] \in Nat /\ rows'[e] \in Nat
        /\ cuts \in Nat /\ cuts' \in Nat
    <2>1. queue \in Seq(SotJob) /\ queue' \in Seq(SotJob)
      BY DEF SotTypeOK
    <2>2. a \in Nat /\ b \in Nat
      BY <2>1, AttemptedFinite
    <2>3. l \in Nat
      BY LeftShape
    <2>4. k \in Nat
      <3>1. job' # NoJob => job'.attempt \in 1..Attempts
        BY DEF SotTypeOK, Running
      <3>2. Attempts \in Nat
        BY SotAssumption
      <3> QED
        BY <3>1, <3>2 DEF JobLeft
    <2>5. rows \in [Events -> Nat] /\ rows' \in [Events -> Nat] /\ cuts \in Nat /\ cuts' \in Nat
      BY SotAssumption DEF SotTypeOK
    <2> QED
      BY <2>2, <2>3, <2>4, <2>5
  <1>2. /\ d = cuts + (IF from # 0 /\ e < cursor THEN 1 ELSE 0) /\ d \in Nat
        /\ g = cuts' + (IF from' # 0 /\ e < cursor' THEN 1 ELSE 0) /\ g \in Nat
    <2>1. /\ d = cuts + (IF from # 0 /\ e < cursor THEN 1 ELSE 0)
          /\ g = cuts' + (IF from' # 0 /\ e < cursor' THEN 1 ELSE 0)
      BY DEF Delivered
    <2>2. PICK c \in Nat : c = cuts'
      BY <1>1
    <2>3. c + 1 \in Nat /\ cuts + 1 \in Nat /\ c + 0 = c
      <3>1. cuts \in Nat
        BY <1>1
      <3> QED
        BY <3>1
    <2>4. d \in Nat /\ g \in Nat
      <3>1. d \in Nat
        BY <1>1, <2>1, <2>3
      <3>2. g = c + (IF from' # 0 /\ e < cursor' THEN 1 ELSE 0)
        BY <2>1, <2>2
      <3> HIDE DEF d, g
      <3>3. CASE from' # 0 /\ e < cursor'
        <4>1. g = c + 1
          BY <3>2, <3>3
        <4> QED
          BY <2>3, <3>1, <4>1
      <3>4. CASE ~(from' # 0 /\ e < cursor')
        <4>1. g = c + 0
          BY <3>2, <3>4
        <4> QED
          BY <2>2, <2>3, <3>1, <4>1
      <3> QED
        BY <3>3, <3>4
    <2> HIDE DEF d, g
    <2> QED
      BY <2>1, <2>4
  <1>3. n <= Attempts * d + cuts
    BY DEF RowsRoom, RowRoomOf
  <1>4. n \in Nat /\ m \in Nat
    <2> HIDE DEF a, b, l, k
    <2> QED
      BY <1>1
  <1>5. ASSUME d <= g, cuts <= cuts',
               \/ m <= n
               \/ m <= n + 1 /\ cuts < cuts'
               \/ m <= n + Attempts /\ d < g
        PROVE  RowRoomOf(e)'
    <2>1. m <= Attempts * g + cuts'
      <3> HIDE DEF d, g, n, m
      <3>1. Attempts \in Nat
        BY SotAssumption
      <3>2. /\ d \in Nat /\ g \in Nat /\ cuts \in Nat /\ cuts' \in Nat
        BY <1>1, <1>2
      <3>3. CASE m <= n
        BY <1>3, <1>4, <1>5, <3>1, <3>2, <3>3, RoomKept
      <3>4. CASE m <= n + 1 /\ cuts < cuts'
        BY <1>3, <1>4, <1>5, <3>1, <3>2, <3>4, RoomKept
      <3>5. CASE m <= n + Attempts /\ d < g
        BY <1>3, <1>4, <1>5, <3>1, <3>2, <3>5, RoomKept
      <3> QED
        BY <1>5, <3>3, <3>4, <3>5
    <2> QED
      BY <2>1 DEF RowRoomOf
  <1>6. JobLeft(e)' = IF job' = NoJob THEN 0
                      ELSE IF job'.event # e THEN 0
                      ELSE IF job'.pc = "updating" THEN Attempts - job'.attempt
                      ELSE Attempts - job'.attempt + 1
    BY DEF JobLeft
  <1>7. cursor \in Nat /\ e \in Nat /\ Attempts \in Nat
    BY SotAssumption, CursorFits DEF SotTypeOK, Events
  <1>8. ASSUME Mine \/ SyncSotdata \/ MissBlock \/ Disconnect PROVE RowRoomOf(e)'
    <2>1. rows' = rows /\ queue' = queue /\ job' = job
      BY <1>8 DEF Mine, SyncSotdata, MissBlock, Disconnect
    <2>2. m = n
      BY <2>1 DEF JobLeft
    <2>3. /\ \/ from' = from /\ cursor' = cursor /\ cuts' = cuts
             \/ from = 0 /\ cuts' = cuts
             \/ from' = from /\ cursor' = cursor + 1 /\ cuts' = cuts
             \/ from' = 0 /\ cuts' = cuts + 1
      BY <1>8 DEF Mine, SyncSotdata, MissBlock, Disconnect
    <2>4. d <= g /\ cuts <= cuts'
      <3> HIDE DEF d, g
      <3>1. CASE from' = from /\ cursor' = cursor /\ cuts' = cuts
        BY <1>1, <1>2, <3>1
      <3>2. CASE from = 0 /\ cuts' = cuts
        BY <1>1, <1>2, <3>2
      <3>3. CASE from' = from /\ cursor' = cursor + 1 /\ cuts' = cuts
        BY <1>1, <1>2, <1>7, <3>3
      <3>4. CASE from' = 0 /\ cuts' = cuts + 1
        BY <1>1, <1>2, <3>4
      <3> QED
        BY <2>3, <3>1, <3>2, <3>3, <3>4
    <2> HIDE DEF n, m, d, g
    <2> QED
      BY <1>4, <1>5, <2>2, <2>4
  <1>9. ASSUME AddBlock PROVE RowRoomOf(e)'
    <2> DEFINE j == [event |-> cursor, attempt |-> 1, stalls |-> 0]
    <2>1. /\ rows' = rows /\ job' = job /\ queue' = Append(queue, j)
          /\ from # 0 /\ from' = from /\ cursor' = cursor + 1 /\ cuts' = cuts
          /\ j.event = cursor /\ j.attempt = 1
      BY <1>9 DEF AddBlock
    <2>2. j \in SotJob
      BY SotAssumption, <1>9, CursorFits DEF AddBlock, SotTypeOK, SotJob, Events
    <2> HIDE DEF j
    <2>3. b <= a + Share(j, e) /\ Share(j, e) \in Nat
      BY <2>1, <2>2, AppendRoom, ShareTyped DEF SotTypeOK
    <2>4. Share(j, e) = IF e = cursor THEN Attempts ELSE 0
      BY <1>7, <2>1 DEF Share
    <2>5. k = l
      BY <2>1 DEF JobLeft
    <2>6. m <= n + Share(j, e)
      <3> HIDE DEF a, b, k, l
      <3> QED
        BY <1>1, <2>1, <2>3, <2>5
    <2>7. d <= g /\ (e = cursor => d < g) /\ cuts <= cuts'
      <3> HIDE DEF d, g
      <3> QED
        BY <1>1, <1>2, <1>7, <2>1
    <2> HIDE DEF n, m, d, g
    <2>8. CASE e = cursor
      BY <1>5, <2>4, <2>6, <2>7, <2>8
    <2>9. CASE e # cursor
      BY <1>4, <1>5, <2>4, <2>6, <2>7, <2>9
    <2> QED
      BY <2>8, <2>9
  <1>10. ASSUME Restart PROVE RowRoomOf(e)'
    <2>1. rows' = rows /\ job' = NoJob /\ from' = 0 /\ cuts' = cuts + 1
      BY <1>10 DEF Restart
    <2>2. d <= g /\ cuts < cuts'
      <3> HIDE DEF d, g
      <3> QED
        BY <1>1, <1>2, <2>1
    <2>3. k = 0
      BY <2>1 DEF JobLeft
    <2>4. b <= a + l + 1
      <3>1. CASE queue' = queue
        <4> HIDE DEF l
        <4>2. a = b
          BY <3>1
        <4> HIDE DEF a, b
        <4> QED
          BY <1>1, <4>2
      <3>2. CASE queue' # queue
        <4> DEFINE j == StalledJob
        <4>1. /\ j \in SotJob /\ queue' = <<j>> \o queue /\ job # NoJob
              /\ j.event = job.event /\ j.attempt = job.attempt
          BY <1>10, <3>2, StalledShape
        <4> HIDE DEF j
        <4>2. b <= a + Share(j, e) /\ Share(j, e) \in Nat
          BY <4>1, PrependRoom, ShareTyped DEF SotTypeOK
        <4>3. Share(j, e) <= l + 1
          <5>1. job.attempt \in 1..Attempts
            BY <4>1, RunningShape
          <5>2. l = IF job.event # e THEN 0
                    ELSE IF job.pc = "updating" THEN Attempts - job.attempt
                    ELSE Attempts - job.attempt + 1
            BY <4>1 DEF JobLeft
          <5> HIDE DEF l
          <5> QED
            BY <1>7, <4>1, <5>1, <5>2 DEF Share
        <4> HIDE DEF a, b, l
        <4> QED
          BY <1>1, <4>2, <4>3
      <3> QED
        BY <3>1, <3>2
    <2>5. m <= n + 1
      <3> HIDE DEF a, b, k, l
      <3> QED
        BY <1>1, <2>1, <2>3, <2>4
    <2> HIDE DEF n, m, d, g
    <2> QED
      BY <1>1, <1>5, <2>2, <2>5
  <1>11. ASSUME JobStep \/ FailJob, m <= n PROVE RowRoomOf(e)'
    <2>1. from' = from /\ cursor' = cursor /\ cuts' = cuts
      BY <1>11
      DEF FailJob, JobStep, HandleBlock, FetchSot, AddSotData, UpdateLastNftBlock
    <2>2. d <= g /\ cuts <= cuts'
      <3> HIDE DEF d, g
      <3> QED
        BY <1>1, <1>2, <2>1
    <2> HIDE DEF n, m, d, g
    <2> QED
      BY <1>5, <1>11, <2>2
  <1>12. ASSUME HandleBlock PROVE m <= n
    <2> DEFINE j == Head(queue)
    <2>1. /\ rows' = rows /\ queue # <<>> /\ queue' = Tail(queue) /\ job = NoJob
          /\ job' = [pc |-> "fetching", event |-> j.event, attempt |-> j.attempt,
                     stalls |-> j.stalls]
      BY <1>12 DEF HandleBlock
    <2>2. b + Share(j, e) <= a /\ j \in SotJob
      BY <2>1, TailRoom DEF SotTypeOK
    <2>3. l = 0
      BY <2>1 DEF JobLeft
    <2>4. k = Share(j, e)
      <3>1. /\ job'.event = j.event /\ job'.attempt = j.attempt /\ job'.pc = "fetching"
            /\ job' # NoJob
        <4>1. job'.event = j.event /\ job'.attempt = j.attempt /\ job'.pc = "fetching"
          BY <2>1
        <4> QED
          BY <4>1 DEF NoJob
      <3> HIDE DEF j
      <3> QED
        BY <1>6, <3>1 DEF Share
    <2> HIDE DEF a, b, k, l, j
    <2> QED
      BY <1>1, <2>1, <2>2, <2>3, <2>4
  <1>13. ASSUME FetchSot PROVE m <= n
    <2>1. /\ rows' = rows /\ queue' = queue /\ job # NoJob /\ job.pc = "fetching"
          /\ job' # NoJob /\ job'.pc = "saving"
          /\ job'.event = job.event /\ job'.attempt = job.attempt
      BY <1>13, RunningShape, PcRuns DEF FetchSot
    <2>2. k = l
      BY <1>6, <2>1, LeftShape
    <2>3. b = a
      BY <2>1
    <2> HIDE DEF a, b, k, l
    <2> QED
      BY <1>1, <2>1, <2>2, <2>3
  <1>14. ASSUME AddSotData PROVE m <= n
    <2>1. /\ queue' = queue /\ job # NoJob /\ job.pc = "saving"
          /\ job' # NoJob /\ job'.pc = "updating"
          /\ job'.event = job.event /\ job'.attempt = job.attempt
          /\ job.attempt \in 1..Attempts
          /\ rows' = [rows EXCEPT ![job.event] = @ + 1]
      BY <1>14, RunningShape, PcRuns DEF AddSotData
    <2>2. rows'[e] = IF job.event = e THEN rows[e] + 1 ELSE rows[e]
      BY <2>1 DEF SotTypeOK
    <2>3. k = IF job.event # e THEN 0 ELSE Attempts - job.attempt
      BY <1>6, <2>1
    <2>4. l = IF job.event # e THEN 0 ELSE Attempts - job.attempt + 1
      BY <2>1, LeftShape
    <2>5. b = a
      BY <2>1
    <2>6. rows'[e] + k <= rows[e] + l
      <3> HIDE DEF k, l
      <3>1. CASE job.event = e
        BY <1>1, <1>7, <2>1, <2>2, <2>3, <2>4, <3>1
      <3>2. CASE job.event # e
        BY <1>1, <2>2, <2>3, <2>4, <3>2
      <3> QED
        BY <3>1, <3>2
    <2> HIDE DEF a, b, k, l
    <2> QED
      BY <1>1, <2>5, <2>6
  <1>15. ASSUME UpdateLastNftBlock PROVE m <= n
    <2>1. rows' = rows /\ queue' = queue /\ job' = NoJob
      BY <1>15 DEF UpdateLastNftBlock
    <2>2. k = 0 /\ b = a
      BY <1>6, <2>1
    <2> HIDE DEF a, b, k, l
    <2> QED
      BY <1>1, <2>1, <2>2
  <1>16. ASSUME FailJob PROVE m <= n
    <2>1. rows' = rows /\ job' = NoJob /\ job # NoJob /\ job.attempt \in 1..Attempts
      BY <1>16, RunningShape DEF FailJob
    <2>2. k = 0
      BY <1>6, <2>1
    <2>3. CASE ~(job.attempt < Attempts)
      <3>1. queue' = queue
        BY <1>16, <2>3 DEF FailJob
      <3>2. b = a
        BY <3>1
      <3> HIDE DEF a, b, k, l
      <3> QED
        BY <1>1, <2>1, <2>2, <3>2
    <2>4. CASE job.attempt < Attempts
      <3> DEFINE j == [event |-> job.event, attempt |-> job.attempt + 1, stalls |-> job.stalls]
      <3>1. /\ j.event = job.event /\ j.attempt = job.attempt + 1
            /\ queue' = Append(queue, j)
        BY <1>16, <2>4 DEF FailJob, Retry
      <3>2. j \in SotJob
        BY SotAssumption, <2>1, <2>4, RunningShape DEF SotJob
      <3> HIDE DEF j
      <3>3. b <= a + Share(j, e) /\ Share(j, e) \in Nat
        BY <3>1, <3>2, AppendRoom, ShareTyped DEF SotTypeOK
      <3>4. Share(j, e) <= l
        <4>1. l = IF job.event # e THEN 0
                  ELSE IF job.pc = "updating" THEN Attempts - job.attempt
                  ELSE Attempts - job.attempt + 1
          BY <2>1, LeftShape
        <4> HIDE DEF l
        <4> QED
          BY <1>7, <2>1, <3>1, <4>1 DEF Share
      <3> HIDE DEF a, b, k, l
      <3> QED
        BY <1>1, <2>1, <2>2, <3>3, <3>4
    <2> QED
      BY <2>3, <2>4
  <1> HIDE DEF n, m, a, b, k, l, d, g
  <1> QED
    BY <1>8, <1>9, <1>10, <1>11, <1>12, <1>13, <1>14, <1>15, <1>16 DEF SotNext, JobStep

\* At the start nothing is mined.
LEMMA SotStart ==
    ASSUME SotInit
    PROVE  SotInv
  <1>1. Len(Blocks) \in Nat /\ Attempts \in Nat
    BY SotAssumption
  <1>2. /\ mined = 0 /\ from = 0 /\ cursor = 1 /\ heard = {} /\ missed = {}
        /\ queue = <<>> /\ job = NoJob /\ last = 0 /\ rows = [e \in Events |-> 0]
        /\ spent = {} /\ cuts = 0 /\ misses = 0
    BY DEF SotInit
  <1>3. SotTypeOK
    BY SotAssumption, <1>1, <1>2 DEF SotTypeOK
  <1>4. JobsHeard /\ NothingSkipped /\ LastIsStored
    BY <1>2 DEF JobsHeard, NothingSkipped, LastIsStored
  <1>5. ASSUME NEW e \in Events PROVE RowRoomOf(e)
    <2>1. Attempted(queue, e) = {}
      BY <1>2 DEF Attempted
    <2>2. Cardinality(Attempted(queue, e)) = 0
      BY <2>1, FS_EmptySet
    <2>3. JobLeft(e) = 0 /\ rows[e] = 0 /\ cuts = 0 /\ Delivered(e) = 0
      BY <1>2 DEF JobLeft, Delivered
    <2>4. Attempts * 0 = 0
      BY <1>1, SMT
    <2> QED
      BY <2>2, <2>3, <2>4 DEF RowRoomOf
  <1> QED
    BY <1>3, <1>4, <1>5 DEF SotInv, RowsRoom

\* What follows from the invariant.
LEMMA SotBounds ==
    ASSUME SotInv
    PROVE  SotSound
  <1>1. PassedShareBlock
    BY DEF SotInv, NothingSkipped, PassedShareBlock, Passed, Known, Stored
  <1>2. ASSUME NEW e \in Events PROVE rows[e] <= Attempts * (1 + cuts) + cuts
    <2> DEFINE a == Cardinality(Attempted(queue, e))
               l == JobLeft(e)
               d == Delivered(e)
    <2>1. /\ a \in Nat /\ l \in Nat /\ rows[e] \in Nat /\ cuts \in Nat /\ Attempts \in Nat
      <3>1. queue \in Seq(SotJob) /\ SotTypeOK
        BY DEF SotInv, SotTypeOK
      <3>2. a \in Nat /\ l \in Nat
        BY <3>1, AttemptedFinite, LeftShape
      <3>3. rows[e] \in Nat /\ cuts \in Nat /\ Attempts \in Nat
        BY SotAssumption, <3>1 DEF SotTypeOK
      <3> QED
        BY <3>2, <3>3
    <2>2. d \in Nat /\ d <= 1 + cuts
      BY <2>1 DEF Delivered
    <2>3. rows[e] + a + l <= Attempts * d + cuts
      BY DEF SotInv, RowsRoom, RowRoomOf
    <2> HIDE DEF a, l, d
    <2>4. /\ Attempts * d \in Nat /\ Attempts * (1 + cuts) \in Nat
          /\ Attempts * d <= Attempts * (1 + cuts)
      <3>1. 1 + cuts \in Nat
        BY <2>1
      <3> QED
        BY <2>1, <2>2, <3>1, Products
    <2> QED
      BY <2>1, <2>3, <2>4
  <1> QED
    BY <1>1, <1>2 DEF SotSound, SotInv, RowsBounded

\* The chain, the queue and the tables fit together through disconnects, restarts
\* and retries (syncSotdata, addBlock, addSotData and updateLastNftBlock).
THEOREM SotKept == SotSpec => []SotSound
  <1>1. SotInit => SotInv
    BY SotStart
  <1>2. SotInv /\ [SotNext]_sotVars => SotInv'
    <2>1. ASSUME SotInv, SotNext PROVE SotInv'
      <3>1. SotTypeOK /\ JobsHeard /\ NothingSkipped /\ LastIsStored /\ RowsRoom
        BY <2>1 DEF SotInv
      <3>2. SotTypeOK'
        BY <2>1, <3>1, TypeStep
      <3>3. JobsHeard' /\ NothingSkipped' /\ LastIsStored'
        BY <2>1, <3>1, HeardStep, SkippedStep, LastStep
      <3>4. RowsRoom'
        BY <2>1, <3>1, <3>2, RoomStep
      <3> QED
        BY <3>2, <3>3, <3>4 DEF SotInv
    <2>2. ASSUME SotInv, UNCHANGED sotVars PROVE SotInv'
      BY <2>2
      DEF sotVars, SotInv, SotTypeOK, JobsHeard, NothingSkipped, LastIsStored, RowsRoom,
          RowRoomOf, Known, Stored, JobLeft, Delivered
    <2> QED
      BY <2>1, <2>2
  <1>3. SotInv => SotSound
    BY SotBounds
  <1> QED
    BY <1>1, <1>2, <1>3, PTL DEF SotSpec

-----------------------------------------------------------------------------
(* Prices                                                                  *)

\* What a job that runs alone knows of the row and of memory: before its save it
\* has changed nothing, of a start that looks memory is empty, and what a job is to
\* set is what it saved.
Served(s, row, mem, lost) ==
    /\ s.pc = "setting" => s.price = row
    /\ \/ mem = row \/ (mem = 0 /\ lost > 0)
       \/ s.pc = "looking" /\ mem = 0
       \/ s.pc = "setting"

OneRuns == \A r, x \in Runs : runs[r] # Rest /\ runs[x] # Rest => r = x

PricesInv ==
    /\ PricesTypeOK
    /\ ~jostled => OneRuns
    /\ ~jostled /\ boots > 0 =>
        /\ \A r \in Runs : runs[r] # Rest => Served(runs[r], stored, memory, failures)
        /\ MemoryFollowsRow

LEMMA PricesStart == PricesInit => PricesInv
<1> SUFFICES ASSUME PricesInit PROVE PricesInv
  OBVIOUS
<1>1. runs \in [Runs -> Run \cup {Rest}] /\ \A r \in Runs : runs[r] = Rest
  BY DEF PricesInit
<1>2. PricesTypeOK
  <2>1. 1 \in 1..MaxPrice /\ 0 \in 0..MaxPrice /\ 0 \in 0..MaxBoots /\ 0 \in 0..MaxFailures
    BY PricesAssumption DEF PricesAssumption
  <2>2. jostled \in BOOLEAN
    BY DEF PricesInit
  <2> QED BY <1>1, <2>1, <2>2 DEF PricesInit, PricesTypeOK
<1> QED BY <1>1, <1>2 DEF PricesInit, PricesInv, OneRuns

\* Where a job goes on, the others stay as they are.
LEMMA RunMoves ==
  ASSUME PricesTypeOK, NEW r \in Runs
  PROVE  /\ runs[r] \in Run \cup {Rest} /\ Rest.pc = "rest"
         /\ \A s : \A x \in Runs : [runs EXCEPT ![r] = s][x] = IF x = r THEN s ELSE runs[x]
         /\ \A s \in Run \cup {Rest} : [runs EXCEPT ![r] = s] \in [Runs -> Run \cup {Rest}]
         /\ \A p \in {"looking", "asking", "saving", "setting"} :
              /\ [runs EXCEPT ![r].pc = p] = [runs EXCEPT ![r] = [pc |-> p, price |-> runs[r].price]]
              /\ [pc |-> p, price |-> runs[r].price] \in Run
         /\ runs[r].price \in 0..MaxPrice
<1>1. runs \in [Runs -> Run \cup {Rest}] /\ runs[r] \in Run \cup {Rest}
  BY DEF PricesTypeOK
<1>2. MaxPrice \in Nat /\ Rest.pc = "rest"
  BY PricesAssumption DEF PricesAssumption, Rest
<1>3. runs[r].price \in 0..MaxPrice
  BY <1>1, <1>2 DEF Run, Rest
<1>4. \A s : \A x \in Runs : [runs EXCEPT ![r] = s][x] = IF x = r THEN s ELSE runs[x]
  BY <1>1
<1>5. \A s \in Run \cup {Rest} : [runs EXCEPT ![r] = s] \in [Runs -> Run \cup {Rest}]
  BY <1>1
<1>6. ASSUME NEW p \in {"looking", "asking", "saving", "setting"}
      PROVE  /\ [runs EXCEPT ![r].pc = p] = [runs EXCEPT ![r] = [pc |-> p, price |-> runs[r].price]]
             /\ [pc |-> p, price |-> runs[r].price] \in Run
  <2>1. [runs[r] EXCEPT !.pc = p] = [pc |-> p, price |-> runs[r].price]
    BY <1>1 DEF Run, Rest
  <2>2. [pc |-> p, price |-> runs[r].price] \in Run
    BY <1>3 DEF Run
  <2> QED BY <2>1, <2>2
<1> QED BY <1>1, <1>2, <1>3, <1>4, <1>5, <1>6

\* A step of one job, that leaves it in state s.
LEMMA RunKept ==
  ASSUME PricesInv, NEW r \in Runs, NEW s \in Run \cup {Rest},
         runs' = [runs EXCEPT ![r] = s], jostled' = jostled, boots' = boots,
         market' = market, stored' \in 0..MaxPrice, memory' \in 0..MaxPrice,
         failures' \in 0..MaxFailures,
         runs[r] # Rest,
         boots > 0 /\ ~jostled => Served(s, stored', memory', failures')
  PROVE  PricesInv'
<1>1. /\ \A x \in Runs : runs'[x] = IF x = r THEN s ELSE runs[x]
      /\ runs' \in [Runs -> Run \cup {Rest}]
  BY RunMoves DEF PricesInv
<1>2. PricesTypeOK'
  BY <1>1 DEF PricesInv, PricesTypeOK
<1>3. ASSUME ~jostled PROVE OneRuns'
  BY <1>1, <1>3 DEF PricesInv, OneRuns
<1>4. ASSUME ~jostled, boots > 0
      PROVE  /\ \A x \in Runs : runs'[x] # Rest => Served(runs'[x], stored', memory', failures')
             /\ MemoryFollowsRow'
  <2>1. \A x \in Runs \ {r} : runs'[x] = Rest
    BY <1>1, <1>4 DEF PricesInv, OneRuns
  <2>2. Served(s, stored', memory', failures') /\ runs'[r] = s
    BY <1>1, <1>4
  <2>3. MemoryFollowsRow'
    BY <2>2 DEF MemoryFollowsRow, Served, Rest
  <2> QED BY <2>1, <2>2, <2>3
<1> QED BY <1>2, <1>3, <1>4 DEF PricesInv

LEMMA PricesStep == PricesInv /\ [PricesNext]_pricesVars => PricesInv'
<1> SUFFICES ASSUME PricesInv, [PricesNext]_pricesVars PROVE PricesInv'
  OBVIOUS
<1>0. /\ PricesTypeOK /\ market \in 1..MaxPrice /\ stored \in 0..MaxPrice /\ memory \in 0..MaxPrice
      /\ runs \in [Runs -> Run \cup {Rest}] /\ jostled \in BOOLEAN
      /\ boots \in 0..MaxBoots /\ failures \in 0..MaxFailures
      /\ MaxPrice \in Nat \ {0} /\ MaxBoots \in Nat /\ MaxFailures \in Nat
  BY PricesAssumption DEF PricesAssumption, PricesInv, PricesTypeOK
<1>1. CASE Change
  <2>1. /\ market' \in 1..MaxPrice
        /\ UNCHANGED <<stored, memory, runs, jostled, boots, failures>>
    BY <1>0, <1>1 DEF Change
  <2>2. PricesTypeOK'
    BY <1>0, <2>1 DEF PricesTypeOK
  <2>3. OneRuns' = OneRuns /\ MemoryFollowsRow' = MemoryFollowsRow
    BY <2>1 DEF OneRuns, MemoryFollowsRow
  <2>4. \A r \in Runs : runs'[r] = runs[r]
    BY <2>1
  <2> QED BY <2>1, <2>2, <2>3, <2>4 DEF PricesInv
<1>2. ASSUME NEW r \in Runs, EveryHalfHour(r) PROVE PricesInv'
  <2>1. /\ boots > 0 /\ runs[r] = Rest /\ jostled' = (jostled \/ \E x \in Runs : runs[x] # Rest)
        /\ runs' = [runs EXCEPT ![r].pc = "asking"]
        /\ UNCHANGED <<market, stored, memory, boots, failures>>
    BY <1>2 DEF EveryHalfHour, MoveRun
  <2>2. PICK s \in Run : s = [pc |-> "asking", price |-> runs[r].price]
    BY <1>0, RunMoves
  <2>3. runs' = [runs EXCEPT ![r] = s]
    BY <1>0, <2>1, <2>2, RunMoves
  <2>4. /\ \A x \in Runs : runs'[x] = IF x = r THEN s ELSE runs[x]
        /\ runs' \in [Runs -> Run \cup {Rest}]
    BY <1>0, <2>3, RunMoves
  <2>5. PricesTypeOK'
    BY <1>0, <2>1, <2>4 DEF PricesTypeOK
  <2>6. ASSUME ~jostled'
        PROVE  /\ OneRuns' /\ MemoryFollowsRow'
               /\ \A x \in Runs : runs'[x] # Rest => Served(runs'[x], stored', memory', failures')
    <3>1. ~jostled /\ \A x \in Runs : runs[x] = Rest
      BY <2>1, <2>6
    <3>2. runs'[r] = s /\ \A x \in Runs \ {r} : runs'[x] = Rest
      BY <2>4, <3>1
    <3>3. memory = stored \/ (memory = 0 /\ failures > 0)
      BY <2>1, <3>1 DEF PricesInv, MemoryFollowsRow
    <3>4. Served(s, stored', memory', failures')
      BY <2>1, <2>2, <3>3 DEF Served
    <3>5. MemoryFollowsRow'
      BY <2>1, <3>3 DEF MemoryFollowsRow
    <3> QED BY <3>2, <3>4, <3>5 DEF OneRuns
  <2> QED BY <2>5, <2>6 DEF PricesInv
<1>3. ASSUME NEW r \in Runs, InitPrice(r) PROVE PricesInv'
  <2>1. /\ runs[r].pc = "looking" /\ runs[r] # Rest
        /\ UNCHANGED <<market, stored, jostled, boots, failures>>
    BY <1>3 DEF InitPrice, Rest
  <2>2. CASE stored = 0
    <3>1. runs' = [runs EXCEPT ![r].pc = "asking"] /\ memory' = memory
      BY <1>3, <2>2 DEF InitPrice, MoveRun
    <3>2. PICK s \in Run : s = [pc |-> "asking", price |-> runs[r].price]
      BY <1>0, RunMoves
    <3>3. runs' = [runs EXCEPT ![r] = s] /\ s \in Run \cup {Rest}
      BY <1>0, <3>1, <3>2, RunMoves
    <3>4. boots > 0 /\ ~jostled => Served(s, stored', memory', failures')
      <4>1. boots > 0 /\ ~jostled => Served(runs[r], stored, memory, failures)
        BY <2>1 DEF PricesInv
      <4> QED BY <2>1, <2>2, <3>1, <3>2, <4>1 DEF Served
    <3> QED BY <1>0, <2>1, <3>1, <3>3, <3>4, RunKept
  <2>3. CASE stored # 0
    <3>1. runs' = [runs EXCEPT ![r] = Rest] /\ memory' = stored
      BY <1>3, <2>3 DEF InitPrice
    <3>2. Served(Rest, stored', memory', failures')
      BY <2>1, <3>1 DEF Served, Rest
    <3> QED BY <1>0, <2>1, <3>1, <3>2, RunKept
  <2> QED BY <2>2, <2>3
<1>4. ASSUME NEW r \in Runs, GetPrice(r) PROVE PricesInv'
  <2>1. /\ runs[r].pc = "asking" /\ runs[r] # Rest
        /\ runs' = [runs EXCEPT ![r] = [pc |-> "saving", price |-> market]]
        /\ UNCHANGED <<market, stored, memory, jostled, boots, failures>>
    BY <1>4 DEF GetPrice, Rest
  <2>2. PICK s \in Run : s = [pc |-> "saving", price |-> market]
    <3>1. market \in 0..MaxPrice
      BY <1>0
    <3> QED BY <3>1 DEF Run
  <2>3. boots > 0 /\ ~jostled => Served(s, stored', memory', failures')
    <3>1. boots > 0 /\ ~jostled => Served(runs[r], stored, memory, failures)
      BY <2>1 DEF PricesInv
    <3> QED BY <2>1, <2>2, <3>1 DEF Served
  <2>4. runs' = [runs EXCEPT ![r] = s] /\ s \in Run \cup {Rest}
    BY <2>1, <2>2
  <2> QED BY <1>0, <2>1, <2>3, <2>4, RunKept
<1>5. ASSUME NEW r \in Runs, SavePrice(r) PROVE PricesInv'
  <2>1. /\ runs[r].pc = "saving" /\ runs[r] # Rest /\ stored' = runs[r].price
        /\ runs' = [runs EXCEPT ![r].pc = "setting"]
        /\ UNCHANGED <<market, memory, jostled, boots, failures>>
    BY <1>5 DEF SavePrice, MoveRun, Rest
  <2>2. PICK s \in Run : s = [pc |-> "setting", price |-> runs[r].price]
    BY <1>0, RunMoves
  <2>3. runs' = [runs EXCEPT ![r] = s] /\ s \in Run \cup {Rest} /\ stored' \in 0..MaxPrice
    BY <1>0, <2>1, <2>2, RunMoves
  <2>4. Served(s, stored', memory', failures')
    BY <2>1, <2>2 DEF Served
  <2> QED BY <1>0, <2>1, <2>3, <2>4, RunKept
<1>6. ASSUME NEW r \in Runs, SetPrice(r) PROVE PricesInv'
  <2>1. /\ runs[r].pc = "setting" /\ runs[r] # Rest /\ memory' = runs[r].price
        /\ runs' = [runs EXCEPT ![r] = Rest]
        /\ UNCHANGED <<market, stored, jostled, boots, failures>>
    BY <1>6 DEF SetPrice, Rest
  <2>2. memory' \in 0..MaxPrice
    BY <1>0, <2>1, RunMoves
  <2>3. boots > 0 /\ ~jostled => Served(Rest, stored', memory', failures')
    <3>1. boots > 0 /\ ~jostled => Served(runs[r], stored, memory, failures)
      BY <2>1 DEF PricesInv
    <3> QED BY <2>1, <3>1 DEF Served, Rest
  <2> QED BY <1>0, <2>1, <2>2, <2>3, RunKept
<1>7. ASSUME NEW r \in Runs, FailRun(r) PROVE PricesInv'
  <2>1. /\ runs[r].pc \in {"looking", "asking", "saving"} /\ runs[r] # Rest
        /\ failures < MaxFailures /\ failures' = failures + 1
        /\ runs' = [runs EXCEPT ![r] = Rest]
        /\ UNCHANGED <<market, stored, memory, jostled, boots>>
    BY <1>7 DEF FailRun, Rest
  <2>2. failures' \in 0..MaxFailures /\ failures' > 0
    BY <1>0, <2>1
  <2>3. boots > 0 /\ ~jostled => Served(Rest, stored', memory', failures')
    <3>1. boots > 0 /\ ~jostled => Served(runs[r], stored, memory, failures)
      BY <2>1 DEF PricesInv
    <3> QED BY <2>1, <2>2, <3>1 DEF Served, Rest
  <2> QED BY <1>0, <2>1, <2>2, <2>3, RunKept
<1>8. CASE StartProcess
  <2>1. PICK r \in Runs : runs' = [x \in Runs |-> IF x = r THEN [pc |-> "looking", price |-> 0]
                                                   ELSE Rest]
    BY <1>8 DEF StartProcess
  <2>2. /\ memory' = 0 /\ jostled' = FALSE /\ boots' = boots + 1 /\ boots < MaxBoots
        /\ UNCHANGED <<market, stored, failures>>
    BY <1>8 DEF StartProcess
  <2>3. PICK s \in Run : s = [pc |-> "looking", price |-> 0]
    <3>1. 0 \in 0..MaxPrice
      BY <1>0
    <3> QED BY <3>1 DEF Run
  <2>4. /\ runs' \in [Runs -> Run \cup {Rest}]
        /\ runs'[r] = s /\ \A x \in Runs \ {r} : runs'[x] = Rest
    <3>1. runs' = [x \in Runs |-> IF x = r THEN s ELSE Rest]
      BY <2>1, <2>3
    <3> QED BY <3>1
  <2>5. PricesTypeOK'
    <3>1. boots + 1 \in 0..MaxBoots /\ 0 \in 0..MaxPrice
      BY <1>0, <2>2
    <3> QED BY <1>0, <2>2, <2>4, <3>1 DEF PricesTypeOK
  <2>6. OneRuns'
    BY <2>4 DEF OneRuns
  <2>7. Served(s, stored', memory', failures')
    BY <2>2, <2>3 DEF Served
  <2>8. MemoryFollowsRow'
    BY <2>3, <2>4 DEF MemoryFollowsRow, Rest
  <2> QED BY <2>4, <2>5, <2>6, <2>7, <2>8 DEF PricesInv
<1>9. CASE UNCHANGED pricesVars
  BY <1>9 DEF pricesVars, PricesInv, PricesTypeOK, OneRuns, MemoryFollowsRow
<1> QED BY <1>1, <1>2, <1>3, <1>4, <1>5, <1>6, <1>7, <1>8, <1>9
        DEF PricesNext, Schedule, RunStep

\* Memory and row are equal whenever no job is at work, unless two ran at once or
\* a start failed, for any prices, starts and failures.
THEOREM PricesKept == PricesSpec => []PricesSound
<1>1. PricesInv => PricesSound
  BY DEF PricesInv, PricesSound, MemoryFollowsRow
<1> QED BY PricesStart, PricesStep, <1>1, PTL DEF PricesSpec
=============================================================================
