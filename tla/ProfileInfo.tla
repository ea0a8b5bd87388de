------------------------------ MODULE ProfileInfo ------------------------------
(***************************************************************************)
(* updateUserInfo and changeNickName: the nickname and the face of a user, *)
(* the avatar, and the reward for telling about oneself, given once.  Each *)
(* request works on an object it loaded first, and a save of that object   *)
(* writes every column in which the row differs from it (AccountRow has    *)
(* the two statements of such a save; here they are one step).             *)
(***************************************************************************)
EXTENDS Integers, FiniteSets

CONSTANTS
    Tellers,        \* requests that may run at the same time
    People,         \* users
    Names,          \* nicknames
    Faces,          \* avatars
    MaxTells,       \* bound on the requests and other movements of a wallet
    MaxFalls        \* bound on rewards that fail, and on crashes, together

ASSUME InfoAssumption ==
    /\ IsFiniteSet(Tellers) /\ IsFiniteSet(People)
    /\ MaxTells \in Nat /\ MaxFalls \in Nat

VARIABLES
    person,         \* users: nickName and profileImage
    avatar,         \* users_avatars
    policy,         \* users_respect_policy.infoReward; missing if sign-up broke off
    infoWallet,     \* the balance of each user, in units of the reward
    rewards,        \* rows of rewards of type INFO_COMPLETION
    earned,         \* what other movements gave to the wallet, less what they took
    unseen,         \* movements of a wallet that a request had in hand and may still write
    told,           \* users whose info was saved by updateUserInfo
    teller,         \* the running requests
    crowded,        \* two requests have run at once, or a wallet moved during one
    tells, falls

infoVars == <<person, avatar, policy, infoWallet, rewards, earned, unseen, told,
              teller, crowded, tells, falls>>

-----------------------------------------------------------------------------
(* Types                                                                   *)

Blank  == "blank"
Person == [nick : Names \cup {Blank}, face : Faces \cup {Blank}]
Hushed == [pc |-> "hushed"]

\* A request: its user, the object it loaded, what it is to set, whether it is
\* updateUserInfo and not changeNickName, and the reward and balance it loaded.
Telling == [pc : {"checking", "saving", "rewarding", "dressing", "facing"},
            user : People, mine : Person, nick : Names \cup {Blank},
            face : Faces \cup {Blank}, info : BOOLEAN, due : BOOLEAN, seen : Nat]

InfoTypeOK ==
    /\ person \in [People -> Person]
    /\ avatar \in [People -> Faces \cup {Blank}]
    /\ policy \in [People -> {"due", "given", "missing"}]
    /\ infoWallet \in [People -> Nat]
    /\ rewards \in [People -> Nat]
    /\ earned \in [People -> Int]
    /\ unseen \in [People -> Nat]
    /\ told \subseteq People
    /\ teller \in [Tellers -> Telling \cup {Hushed}]
    /\ crowded \in BOOLEAN
    /\ tells \in 0..MaxTells /\ falls \in 0..MaxFalls

InfoInit ==
    /\ person = [u \in People |-> [nick |-> Blank, face |-> Blank]]
    /\ avatar = [u \in People |-> Blank]
    /\ policy \in [People -> {"due", "missing"}]
    /\ infoWallet = [u \in People |-> 0]
    /\ rewards = [u \in People |-> 0]
    /\ earned = [u \in People |-> 0]
    /\ unseen = [u \in People |-> 0]
    /\ told = {}
    /\ teller = [t \in Tellers |-> Hushed]
    /\ crowded = FALSE
    /\ tells = 0 /\ falls = 0

-----------------------------------------------------------------------------
(* Actions                                                                 *)

NobodyTells == \A t \in Tellers : teller[t] = Hushed

Tell(t, u, n, f, info) ==
    /\ teller[t] = Hushed
    /\ tells < MaxTells
    /\ tells' = tells + 1
    /\ crowded' = (crowded \/ ~NobodyTells)
    /\ teller' = [teller EXCEPT ![t] =
            [pc |-> IF n # Blank THEN "checking" ELSE "dressing", user |-> u,
             mine |-> person[u], nick |-> n, face |-> f, info |-> info,
             due |-> policy[u] = "due", seen |-> infoWallet[u]]]
    /\ UNCHANGED <<person, avatar, policy, infoWallet, rewards, earned, unseen, told, falls>>

\* A nickname, an avatar, or both.
UpdateUserInfo(t, u, n, f) == (n # Blank \/ f # Blank) /\ Tell(t, u, n, f, TRUE)
ChangeNickName(t, u, n)    == n # Blank /\ Tell(t, u, n, Blank, FALSE)

Comes(t, p)  == teller[t].pc = p
Fall(t)      == teller' = [teller EXCEPT ![t] = Hushed]
TurnTo(t, p) == teller' = [teller EXCEPT ![t].pc = p]
Dress(t)     == IF teller[t].face = Blank THEN Fall(t) ELSE TurnTo(t, "dressing")
SameTells    == UNCHANGED <<earned, crowded, tells>>
SameWallets  == UNCHANGED <<infoWallet, rewards, unseen>>

\* A request that has loaded the wallet of u and has not come past the reward.
Holds(t, u)  == teller[t].pc \in {"checking", "saving", "rewarding"} /\ teller[t].user = u

\* The wallet of u moves, and the requests of S do not see it.
Miss(u, S)   == unseen' = IF \E t \in S : Holds(t, u) THEN [unseen EXCEPT ![u] = @ + 1]
                          ELSE unseen

\* Mutant: a user may have the nickname of another.
CheckOwnNickName(t) ==
    /\ Comes(t, "checking")
    /\ IF person[teller[t].user].nick = teller[t].nick THEN Fall(t) ELSE TurnTo(t, "saving")
    /\ SameTells /\ SameWallets /\ UNCHANGED <<person, avatar, policy, told, falls>>

\* checkNickName: nobody has it, the user included.
CheckNickName(t) ==
    /\ Comes(t, "checking")
    /\ IF \E u \in People : person[u].nick = teller[t].nick THEN Fall(t)
       ELSE TurnTo(t, "saving")
    /\ SameTells /\ SameWallets /\ UNCHANGED <<person, avatar, policy, told, falls>>

SaveNickName(t) ==
    LET r == teller[t]  mine == [r.mine EXCEPT !.nick = r.nick]
        next == IF r.info /\ r.due THEN "rewarding" ELSE "dressing"
    IN  /\ Comes(t, "saving")
        /\ person' = [person EXCEPT ![r.user] = mine]
        /\ told' = IF r.info THEN told \cup {r.user} ELSE told
        /\ teller' = [teller EXCEPT ![t] =
                IF next = "dressing" /\ r.face = Blank THEN Hushed
                ELSE [r EXCEPT !.pc = next, !.mine = mine]]
        /\ SameTells /\ SameWallets /\ UNCHANGED <<avatar, policy, falls>>

\* Mutant: the policy does not remember the reward.
GiveInfoRewardOnly(t) ==
    /\ Comes(t, "rewarding")
    /\ infoWallet' = [infoWallet EXCEPT ![teller[t].user] = teller[t].seen + 1]
    /\ rewards' = [rewards EXCEPT ![teller[t].user] = @ + 1]
    /\ Miss(teller[t].user, Tellers \ {t})
    /\ Dress(t)
    /\ SameTells /\ UNCHANGED <<person, avatar, policy, told, falls>>

\* initGiveInfoReward: one transaction over the wallet as it was loaded, the
\* reward and the policy.
GiveInfoReward(t) ==
    /\ Comes(t, "rewarding")
    /\ infoWallet' = [infoWallet EXCEPT ![teller[t].user] = teller[t].seen + 1]
    /\ rewards' = [rewards EXCEPT ![teller[t].user] = @ + 1]
    /\ Miss(teller[t].user, Tellers \ {t})
    /\ policy' = [policy EXCEPT ![teller[t].user] = "given"]
    /\ Dress(t)
    /\ SameTells /\ UNCHANGED <<person, avatar, told, falls>>

\* Mutant: the wallet is saved outside of the transaction.
RollBackAllButWallet(t) ==
    /\ Comes(t, "rewarding")
    /\ falls < MaxFalls
    /\ falls' = falls + 1
    /\ infoWallet' = [infoWallet EXCEPT ![teller[t].user] = teller[t].seen + 1]
    /\ Fall(t)
    /\ SameTells /\ UNCHANGED <<person, avatar, policy, rewards, unseen, told>>

\* It is rolled back, and the request fails.
RollBackReward(t) ==
    /\ Comes(t, "rewarding")
    /\ falls < MaxFalls
    /\ falls' = falls + 1
    /\ Fall(t)
    /\ SameTells /\ SameWallets /\ UNCHANGED <<person, avatar, policy, told>>

UpdateUserAvatar(t) ==
    /\ Comes(t, "dressing")
    /\ avatar' = [avatar EXCEPT ![teller[t].user] = teller[t].face]
    /\ TurnTo(t, "facing")
    /\ SameTells /\ SameWallets /\ UNCHANGED <<person, policy, told, falls>>

\* Mutant: the picture of the face is the one the user had.
UpdateNoProfileImage(t) ==
    /\ Comes(t, "facing")
    /\ person' = [person EXCEPT ![teller[t].user] = teller[t].mine]
    /\ Fall(t)
    /\ SameTells /\ SameWallets /\ UNCHANGED <<avatar, policy, told, falls>>

UpdateUserProfileImage(t) ==
    /\ Comes(t, "facing")
    /\ person' = [person EXCEPT ![teller[t].user] =
                    [teller[t].mine EXCEPT !.face = teller[t].face]]
    /\ Fall(t)
    /\ SameTells /\ SameWallets /\ UNCHANGED <<avatar, policy, told, falls>>

\* A reward of another kind, or a payment that the balance covers.
MoveWallet(u) == \E d \in {1, -1} :
    /\ tells < MaxTells
    /\ tells' = tells + 1
    /\ infoWallet[u] + d >= 0
    /\ infoWallet' = [infoWallet EXCEPT ![u] = @ + d]
    /\ earned' = [earned EXCEPT ![u] = @ + d]
    /\ Miss(u, Tellers)
    /\ crowded' = (crowded \/ ~NobodyTells)
    /\ UNCHANGED <<person, avatar, policy, rewards, told, teller, falls>>

CrashTelling ==
    /\ ~NobodyTells
    /\ falls < MaxFalls
    /\ falls' = falls + 1
    /\ teller' = [t \in Tellers |-> Hushed]
    /\ SameTells /\ SameWallets /\ UNCHANGED <<person, avatar, policy, told>>

InfoNext ==
    \/ \E t \in Tellers :
        \/ \E u \in People, n \in Names \cup {Blank} :
            \/ ChangeNickName(t, u, n)
            \/ \E f \in Faces \cup {Blank} : UpdateUserInfo(t, u, n, f)
        \/ CheckNickName(t) \/ SaveNickName(t) \/ GiveInfoReward(t) \/ RollBackReward(t)
        \/ UpdateUserAvatar(t) \/ UpdateUserProfileImage(t)
    \/ \E u \in People : MoveWallet(u)
    \/ CrashTelling

InfoSpec == InfoInit /\ [][InfoNext]_infoVars

-----------------------------------------------------------------------------
(* Properties                                                              *)

\* The reward is given once to a request of all that run at the same time, so at
\* most once if they do not; and the policy knows of it.
InfoRewardedOnce ==
    \A u \in People :
        /\ rewards[u] <= Cardinality(Tellers)
        /\ ~crowded => rewards[u] <= 1
        /\ (policy[u] = "given") <=> rewards[u] > 0

\* A balance loaded before another movement of the wallet undoes that movement: a
\* credit is lost and a debit given back, so money is lost or made, but never by
\* more than the movements that some request with the wallet in hand did not see.
InfoWalletBacked ==
    \A u \in People :
        LET off == infoWallet[u] - (rewards[u] + earned[u])
        IN  -unseen[u] <= off /\ off <= unseen[u]

\* Without requests that meet, nobody shares a nickname.
NicknamesUnique ==
    ~crowded =>
        \A u, w \in People : person[u].nick = person[w].nick => u = w \/ person[u].nick = Blank

\* At rest and unless something failed, who told about themselves was rewarded,
\* and the picture is that of the avatar.  A reward that failed can still be had,
\* but only under another nickname: the one just saved is taken.
NothingHalfTold ==
    NobodyTells /\ ~crowded =>
        \A u \in People :
            \/ falls > 0
            \/ /\ u \in told => policy[u] # "due"
               /\ person[u].face = avatar[u]

InfoSound ==
    InfoTypeOK /\ InfoRewardedOnce /\ InfoWalletBacked /\ NicknamesUnique /\ NothingHalfTold
=============================================================================
