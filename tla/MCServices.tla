----------------------------- MODULE MCServices -----------------------------
(***************************************************************************)
(* The sequential and transactional services: how upstream files are read, *)
(* and the stores of posts, accounts, links and tokens.  They share no     *)
(* state here, so a behaviour is one of any of them.                       *)
(***************************************************************************)
EXTENDS TermParser, TableParser, PostStores, AuthStores, Users, TLC

VARIABLE part     \* which of them this behaviour is one of

servicesVars ==
    <<part, parserVars, tableVars, storesVars, authVars, usersVars>>

ServicesInit ==
    /\ part \in {"months", "tables", "posts", "links", "tokens", "users"}
    /\ ParserInit /\ TableInit /\ StoresInit /\ AuthInit /\ UsersInit

ServicesNext ==
    \/ /\ part = "months" /\ ParserNext
       /\ UNCHANGED <<part, tableVars, storesVars, authVars, usersVars>>
    \/ /\ part = "tables" /\ TableNext
       /\ UNCHANGED <<part, parserVars, storesVars, authVars, usersVars>>
    \/ /\ part = "posts" /\ StoresNext
       /\ UNCHANGED <<part, parserVars, tableVars, authVars, usersVars>>
    \/ /\ part = "links" /\ LinkStoresNext
       /\ UNCHANGED <<part, parserVars, tableVars, storesVars, usersVars>>
    \/ /\ part = "tokens" /\ TokenStoresNext
       /\ UNCHANGED <<part, parserVars, tableVars, storesVars, usersVars>>
    \/ /\ part = "users" /\ UsersNext
       /\ UNCHANGED <<part, parserVars, tableVars, storesVars, authVars>>

ServicesSpec == ServicesInit /\ [][ServicesNext]_servicesVars

-----------------------------------------------------------------------------
(* Two top-level categories of one name, a derivative, and a category that *)
(* wants a derivative as its parent; posts of each kind.                   *)
Cat(s, n, p) == [slug |-> s, name |-> n, parent |-> p]
MCCategoryInputs ==
    {Cat("a", 1, ""), Cat("b", 1, ""), Cat("c", 2, "a"), Cat("d", 1, "c")}

Item(k, b, u, f, m) ==
    [kind |-> k, body |-> b, url |-> u, filename |-> f, mime |-> m]
Text == Item("text", "x", "absent", "absent", "absent")
TextWithUrl == Item("text", "x", "", "absent", "absent")
Link(u) == Item("link", "absent", u, "absent", "absent")
File(m) == Item("file", "x", "absent", "f", m)
MCItemInputs == {Text, TextWithUrl, Link("u"), Link(""), File("absent"),
                 File("m")}

(* Posts of one, two and three items; the rest are refused: no item, one   *)
(* too many, and an item with a field it must not, or does not, have.      *)
PostOf(s, t, c, d, i) ==
    [slug |-> s, title |-> t, category |-> c, derivative |-> d, items |-> i]
MCPostInputs ==
    {PostOf("p", 1, "a", "", <<Link("u"), Text>>),
     PostOf("p", 2, "c", "", <<File("absent")>>),
     PostOf("q", 1, "a", "c", <<File("m"), Text, Text>>),
     PostOf("q", 1, "a", "", <<>>),
     PostOf("q", 1, "a", "", <<Text, Text, Text, Text>>),
     PostOf("q", 1, "a", "", <<Text, TextWithUrl>>),
     PostOf("q", 1, "a", "", <<Link(""), Text>>)}

(* The slots of requests are interchangeable.                              *)
SlotSymmetry == Permutations(StoreRequests)
=============================================================================
