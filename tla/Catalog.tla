-------------------------------- MODULE Catalog --------------------------------
(***************************************************************************)
(* The avatar items that admins create and change, the wish lists of the   *)
(* users, and the lists in which both are shown.  An item is of one gender *)
(* and category, which its name has to fit, and nothing but a look at the  *)
(* table keeps a second one of its name and color away.  save writes the   *)
(* columns in which the row it selects differs from the request.           *)
(***************************************************************************)
EXTENDS Naturals, FiniteSets

CONSTANTS
    Curators,       \* requests of admins that may run at the same time
    Wishers,        \* users
    Styles,         \* names of items with their gender and category
    Colors,
    MaxAvatars,     \* bound on the items
    MaxEdits        \* bound on the requests ever started

ASSUME CatalogAssumption ==
    /\ IsFiniteSet(Curators) /\ IsFiniteSet(Wishers)
    /\ \A s \in Styles : DOMAIN s = {"gender", "category", "name"}
    /\ \A s, t \in Styles : s.name = t.name => s = t
    /\ MaxAvatars \in Nat /\ MaxEdits \in Nat

VARIABLES
    avatars,        \* avatars_items, in the order of their creation
    raced,          \* items with an update over a change it had not seen
    wishes,         \* users_items_wishlists
    wishing,        \* rows about to be inserted there
    curator,        \* the running requests of admins
    edits           \* requests started

catalogVars == <<avatars, raced, wishes, wishing, curator, edits>>

-----------------------------------------------------------------------------
(* Types                                                                   *)

Payload == [gender : {s.gender : s \in Styles}, category : {s.category : s \in Styles},
            name : {s.name : s \in Styles}, color : Colors, active : BOOLEAN]

Nobody   == [pc |-> "nobody"]
Curating == [pc : {"checked", "selected"}, item : 0..MaxAvatars, payload : Payload,
             base : Payload]

Ids == DOMAIN avatars

CatalogTypeOK ==
    /\ Ids \in {1..n : n \in 0..MaxAvatars}
    /\ \A i \in Ids : avatars[i] \in Payload
    /\ raced \subseteq Ids
    /\ wishes \subseteq Wishers \X Ids /\ wishing \subseteq Wishers \X Ids
    /\ curator \in [Curators -> Curating \cup {Nobody}]
    /\ edits \in 0..MaxEdits

CatalogInit ==
    /\ avatars = << >> /\ raced = {}
    /\ wishes = {} /\ wishing = {}
    /\ curator = [c \in Curators |-> Nobody]
    /\ edits = 0

-----------------------------------------------------------------------------
(* Admins                                                                  *)

\* checkAvatarInput, its first part.
Fits(p) == \E s \in Styles : \A column \in DOMAIN s : p[column] = s[column]

Alike(p, q) == p.name = q.name /\ p.color = q.color
Active      == {i \in Ids : avatars[i].active}

\* Mutant: only among the items on sale.
TakenOnSale(i, p) == \E k \in Active \ {i} : Alike(avatars[k], p)

\* Its second part: another item of this name and color.
Taken(i, p) == \E k \in Ids \ {i} : Alike(avatars[k], p)

\* Item 0 is a new one.
CheckAvatarInput(c, i, p) ==
    /\ curator[c] = Nobody
    /\ edits < MaxEdits
    /\ edits' = edits + 1
    /\ i \in Ids \cup {0}
    /\ Fits(p)
    /\ ~Taken(i, p)
    /\ curator' = [curator EXCEPT ![c] =
                    [pc |-> "checked", item |-> i, payload |-> p, base |-> p]]
    /\ UNCHANGED <<avatars, raced, wishes, wishing>>

CreateAvatar(c) ==
    /\ curator[c].pc = "checked" /\ curator[c].item = 0
    /\ Cardinality(Ids) < MaxAvatars
    /\ avatars' = [i \in Ids \cup {Cardinality(Ids) + 1} |->
                    IF i \in Ids THEN avatars[i] ELSE curator[c].payload]
    /\ curator' = [curator EXCEPT ![c] = Nobody]
    /\ UNCHANGED <<raced, wishes, wishing, edits>>

\* updateAvatar: save reads the row ...
SelectAvatar(c) ==
    /\ curator[c].pc = "checked" /\ curator[c].item # 0
    /\ curator' = [curator EXCEPT ![c].pc = "selected", ![c].base = avatars[curator[c].item]]
    /\ UNCHANGED <<avatars, raced, wishes, wishing, edits>>

\* Mutant: the name is left as it is.
SaveButName(r, now) == [column \in DOMAIN now |->
    IF column = "name" \/ r.payload[column] = r.base[column] THEN now[column]
    ELSE r.payload[column]]

\* ... and writes the columns that differ from it.
Save(r, now) == [column \in DOMAIN now |->
    IF r.payload[column] = r.base[column] THEN now[column] ELSE r.payload[column]]

UpdateAvatarItem(c) ==
    LET r == curator[c]
    IN  /\ r.pc = "selected"
        /\ avatars' = [avatars EXCEPT ![r.item] = Save(r, @)]
        /\ raced' = IF avatars[r.item] # r.base THEN raced \cup {r.item} ELSE raced
        /\ curator' = [curator EXCEPT ![c] = Nobody]
        /\ UNCHANGED <<wishes, wishing, edits>>

-----------------------------------------------------------------------------
(* Wish lists                                                              *)

Wish ==
    /\ edits < MaxEdits
    /\ edits' = edits + 1
    /\ UNCHANGED <<avatars, raced, curator>>

\* addItemToUserWishlist finds the item on sale and not wished for.
FindWish(u, i) ==
    /\ i \in Active
    /\ <<u, i>> \notin wishes
    /\ Wish
    /\ wishing' = wishing \cup {<<u, i>>}
    /\ UNCHANGED wishes

\* The primary key keeps a second row out.
InsertWish(w) ==
    /\ w \in wishing
    /\ wishes' = wishes \cup {w}
    /\ wishing' = wishing \ {w}
    /\ UNCHANGED <<avatars, raced, curator, edits>>

\* deleteFromWishlist of one item and deleteUserWishlist of all of a user.
DeleteWishes(w) ==
    /\ w # {} /\ w \subseteq wishes
    /\ Wish
    /\ wishes' = wishes \ w
    /\ UNCHANGED wishing

WishesOf(u) == {w \in wishes : w[1] = u}

CatalogNext ==
    \/ \E c \in Curators :
        \/ \E i \in 0..MaxAvatars, p \in Payload : CheckAvatarInput(c, i, p)
        \/ CreateAvatar(c) \/ SelectAvatar(c) \/ UpdateAvatarItem(c)
    \/ \E u \in Wishers, i \in Active : FindWish(u, i)
    \/ \E w \in wishing : InsertWish(w)
    \/ \E w \in wishes : DeleteWishes({w})
    \/ \E u \in Wishers : DeleteWishes(WishesOf(u))

CatalogSpec == CatalogInit /\ [][CatalogNext]_catalogVars

-----------------------------------------------------------------------------
(* Lists                                                                   *)

WishersOf(i) == {u \in Wishers : <<u, i>> \in wishes}

\* Mutant: an inner join.
MarketItemsWished == {<<w[2], w[1]>> : w \in {x \in wishes : x[2] \in Active}}

\* getMarketItems: a left join, so a line for each user who wishes for the item,
\* its favourite mark set; or one line without.
MarketItems ==
    {<<w[2], w[1]>> : w \in {x \in wishes : x[2] \in Active}}
        \cup {<<i, "nobody">> : i \in {k \in Active : WishersOf(k) = {}}}

UserWishlist(u) == {w[2] : w \in WishesOf(u)} \cap Active

\* getColorsByItemName, and virtualTryItems, which counts a color twice for two
\* items.
ColorsByItemName(n) == {avatars[i].color : i \in {k \in Active : avatars[k].name = n}}
VirtualTryItems(n, c) ==
    Cardinality({i \in Active : avatars[i].name = n /\ avatars[i].color = c})

-----------------------------------------------------------------------------
(* Properties                                                              *)

\* The name of an item fits its gender and category, however requests meet, as
\* long as no update wrote over a change it had not seen: then the columns of two
\* requests mix.
RowsFit == \A i \in Ids \ raced : Fits(avatars[i])

\* Of a name and color there are never more items than requests at the same time
\* found none: a copy that came in between is not followed by another.
CopiesBounded ==
    \A i \in Ids \ raced :
        Cardinality({k \in Ids \ raced : Alike(avatars[i], avatars[k])})
            <= Cardinality(Curators)

\* The market shows every item on sale and nothing else; what a user sees in the
\* wish list is a favourite there, for that user and for all others; and the
\* items one can try on are those on sale.
ListsAgree ==
    /\ {m[1] : m \in MarketItems} = Active
    /\ \A u \in Wishers : \A i \in UserWishlist(u) : <<i, u>> \in MarketItems
    /\ \A i \in Active :
        /\ avatars[i].color \in ColorsByItemName(avatars[i].name)
        /\ VirtualTryItems(avatars[i].name, avatars[i].color) > 0

CatalogSound == CatalogTypeOK /\ RowsFit /\ CopiesBounded /\ ListsAgree
=============================================================================
