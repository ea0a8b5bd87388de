------------------------------ MODULE MCRequests ------------------------------
(***************************************************************************)
(* The modules of single requests for TLC.  They share no state, so one of *)
(* them runs in each behaviour: together the behaviours cover every state  *)
(* of each.                                                                *)
(***************************************************************************)
EXTENDS Throttle, AccountRow, AdminAccess, SurveyTalk, Inbox, Desk, EmailCheck,
        Catalog, ProfileInfo, TLC

CONSTANTS p1, p2, u1, u2, red, mail, phone, author, reader

VARIABLE part       \* the module that runs

Budget(l, c, x) == [logins |-> l, codes |-> c, crashes |-> x]
MCBudgets == {Budget(14, 0, 0), Budget(2, 0, 1), Budget(1, 2, 0),
              Budget(0, 4, 0), Budget(0, 3, 1)}

MCNames == {"n", "m"}

Style(g, k, n) == [gender |-> g, category |-> k, name |-> n]
MCStyles == {Style("male", "hairs", "short"), Style("male", "tops", "shirt"),
             Style("female", "tops", "coat")}

Init ==
    /\ ThrottleInit /\ AccountInit /\ AdminInit
    /\ TalkInit /\ InboxInit /\ DeskInit /\ EmailInit
    /\ CatalogInit /\ InfoInit
    /\ part \in {"throttle", "account", "admin", "talk", "inbox", "desk", "email",
                "catalog", "info"}
    /\ part # "throttle" => left = Budget(14, 0, 0)
    /\ part # "account" => Newcomer
    /\ part # "desk" => files = {}
    /\ part # "info" => policy = [u \in People |-> "due"]

usersVars   == <<throttleVars, accountVars, adminVars, infoVars>>
contactVars == <<inboxVars, deskVars, emailVars>>
pageVars    == <<talkVars, catalogVars>>

UserStep ==
    \/ part = "throttle" /\ ThrottleNext /\ UNCHANGED <<accountVars, adminVars, infoVars>>
    \/ part = "account" /\ AccountNext /\ UNCHANGED <<throttleVars, adminVars, infoVars>>
    \/ part = "admin" /\ AdminNext /\ UNCHANGED <<throttleVars, accountVars, infoVars>>
    \/ part = "info" /\ InfoNext /\ UNCHANGED <<throttleVars, accountVars, adminVars>>

ContactStep ==
    \/ part = "inbox" /\ InboxNext /\ UNCHANGED <<deskVars, emailVars>>
    \/ part = "desk" /\ DeskNext /\ UNCHANGED <<inboxVars, emailVars>>
    \/ part = "email" /\ EmailNext /\ UNCHANGED <<inboxVars, deskVars>>

PageStep ==
    \/ part = "talk" /\ TalkNext /\ UNCHANGED catalogVars
    \/ part = "catalog" /\ CatalogNext /\ UNCHANGED talkVars

Next ==
    /\ UNCHANGED part
    /\ \/ UserStep /\ UNCHANGED <<contactVars, pageVars>>
       \/ ContactStep /\ UNCHANGED <<usersVars, pageVars>>
       \/ PageStep /\ UNCHANGED <<usersVars, contactVars>>

vars == <<usersVars, contactVars, pageVars, part>>
Spec == Init /\ [][Next]_vars

\* The two requests of every module are alike, and so are its two users.
Symmetry == Permutations({p1, p2}) \cup Permutations({u1, u2})
=============================================================================
