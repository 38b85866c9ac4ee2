---------------------------- MODULE AdminUsers -----------------------------
(***************************************************************************)
(* The users page of the admin client, from the sign-in that opens it to   *)
(* the list queries and the deletions it sends, against a collection that  *)
(* registrations and other admins go on changing.                          *)
(*                                                                         *)
(*   apps/admin/src/components/AdminRoute.tsx   who sees the page          *)
(*   apps/admin/src/pages/UsersPage.tsx         its page, search and rows  *)
(*   apps/admin/src/hooks/useUserQueries.ts     the query and the mutation *)
(*   apps/api/src/services/user.service.ts      the list and the deletion  *)
(*                                                                         *)
(* The list is fetched through TanStack Query: one cache entry and at most *)
(* one fetch per query key, refetched whenever the page turns to a key,    *)
(* the rows of the previous key shown meanwhile (keepPreviousData).  The   *)
(* API answers with the result of two queries that run side by side.  The  *)
(* tokens behind a session are WebClient and Sessions.                     *)
(***************************************************************************)
EXTENDS Listing

CONSTANTS
    Account,
    Admin,          \* the accounts whose role is admin
    NoUser,
    Registered,     \* the collections to begin with, newest account first
    Searched,       \* the accounts that the other search term finds
    LIMIT,          \* UsersPage.tsx: 10
    MaxBehind,      \* the bound on the lists kept for keys the page has left
    MaxChanges,     \* the bound on writes to the collection
    MayFail         \* may a request fail?

ASSUME AdminUsersAssumption ==
    /\ IsFiniteSet(Account)
    /\ Admin \subseteq Account /\ Searched \subseteq Account
    /\ NoUser \notin Account
    /\ Registered \subseteq Seq(Account)
    /\ \A s \in Registered : \A i, j \in DOMAIN s : s[i] = s[j] => i = j
    /\ LIMIT \in 1..MAX_LIMIT
    /\ MaxBehind \in Nat /\ MaxChanges \in Nat
    /\ MayFail \in BOOLEAN

VARIABLES
    users,      \* the collection, by createdAt descending
    unborn,     \* the accounts that have not registered yet
    changes,    \* how often it was written
    session,    \* the account whose tokens the cookies hold
    view,       \* what the router shows
    store,      \* the user in the Zustand store
    key,        \* UsersPage: the page and the search term it asks for
    lastKey,    \*   and the last key whose list it has shown
    cache,      \* per key: the list,
    failed,     \*   whether its last fetch failed,
    fetch,      \*   and the fetch in flight
    deletion,   \* the deletion in flight
    leaving,    \* is the answer to a logout on its way?
    shownFrom   \* history: the write that a settled list must not miss

api == <<users, unborn, changes>>
account == <<session, view, store>>
place == <<key, lastKey>>
lists == <<cache, failed, fetch>>
vars == <<api, account, place, lists, deletion, leaving, shownFrom>>

Term == {"", "q"}
Hits(term) == IF term = "" THEN Account ELSE Searched
\* There is a page past the last one, and that bounds the pages asked for.
Key == [page : 1..(Cardinality(Account) + 1), term : Term]
FirstPage(term) == [page |-> 1, term |-> term]

Elements(s) == {s[i] : i \in DOMAIN s}

\* A list, the number of writes there had been when its fetch began, and whose
\* session it was answered to; NoList is the absence of one.
List == [items : UNION {[1..n -> Account] : n \in 0..LIMIT},
         total : 0..Cardinality(Account),
         since : 0..MaxChanges,
         by    : Account \cup {NoUser}]
NoList == [items |-> <<>>, total |-> 0, since |-> 0, by |-> NoUser]

\* items, total: the query of the API that was answered first.
Fetch == [pc : {"none", "sent", "items", "total"}, list : List]
NoFetch == [pc |-> "none", list |-> NoList]

\* mine: the page that has sent it is still mounted.
Deletion == [pc     : {"none", "sent", "done", "refused"},
             target : Account \cup {NoUser},
             by     : Account \cup {NoUser},
             mine   : BOOLEAN,
             at     : 0..MaxChanges]
NoDeletion == [pc |-> "none", target |-> NoUser, by |-> NoUser, mine |-> FALSE, at |-> 0]

\* Views, cache entries, fetches and the deletion have their shapes, and nobody
\* is registered twice.
TypeOK ==
    /\ users \in Seq(Account) /\ unborn \subseteq Account
    /\ Cardinality(Elements(users)) = Len(users)
    /\ Elements(users) \cap unborn = {}
    /\ changes \in 0..MaxChanges
    /\ session \in Account \cup {NoUser}
    /\ view \in {"login", "loading", "admin"}
    /\ store \in Account \cup {NoUser}
    /\ key \in Key /\ lastKey \in Key
    /\ cache \in [Key -> List]
    /\ failed \in [Key -> BOOLEAN]
    /\ fetch \in [Key -> Fetch]
    /\ deletion \in Deletion
    /\ leaving \in BOOLEAN
    /\ shownFrom \in 0..MaxChanges

Init ==
    /\ users \in Registered
    /\ unborn = Account \ Elements(users)
    /\ changes = 0
    /\ session \in Elements(users) \cup {NoUser}
    /\ view = "loading"
    /\ store = NoUser
    /\ key = FirstPage("") /\ lastKey = FirstPage("")
    /\ cache = [k \in Key |-> NoList]
    /\ failed = [k \in Key |-> FALSE]
    /\ fetch = [k \in Key |-> NoFetch]
    /\ deletion = NoDeletion
    /\ leaving = FALSE
    /\ shownFrom = 0

------------------------------------------------------------------------------
\* What the page shows

\* AdminRoute lets an admin through, and everybody else sees a 403.
Mounted == view = "admin" /\ store \in Admin

Known(k) == cache[k] # NoList
Fetching(k) == fetch[k].pc # "none"
Settled == Mounted /\ ~Fetching(key) /\ Known(key) /\ ~failed[key]

\* keepPreviousData: until its first answer a key shows the last list shown.
Shown == IF Known(key) \/ ~Fetching(key) THEN cache[key] ELSE cache[lastKey]

\* A fetch joins the one in flight, if there is one.  The error of a key stays
\* beside its list, and without a list goes with the new fetch.
NewFetch == [NoFetch EXCEPT !.pc = "sent", !.list.since = changes]
Joined(k) == IF Fetching(k) THEN fetch[k] ELSE NewFetch

\* The page turns to k: what it has of k is stale at once (staleTime 0).  The
\* fetch of the key it leaves goes on.
Observe(k) ==
    /\ k \in Key
    /\ Cardinality({j \in Key \ {k} : Fetching(j) \/ Known(j)}) <= MaxBehind
    /\ key' = k
    /\ lastKey' = IF Known(key) THEN key ELSE lastKey
    /\ fetch' = [fetch EXCEPT ![k] = Joined(k)]
    /\ failed' = [failed EXCEPT ![k] = @ /\ Known(k)]
    /\ UNCHANGED cache

\* UsersPage mounts, with useState(1) and useState('').
Mount ==
    /\ key' = FirstPage("") /\ lastKey' = FirstPage("")
    /\ fetch' = [fetch EXCEPT ![FirstPage("")] = Joined(FirstPage(""))]
    /\ failed' = [failed EXCEPT ![FirstPage("")] = @ /\ Known(FirstPage(""))]
    /\ UNCHANGED cache

\* A user comes into the store, and the router shows the pages behind AdminRoute.
Enter(a) ==
    /\ store' = a
    /\ view' = "admin"
    /\ IF a \in Admin THEN Mount ELSE UNCHANGED <<place, lists>>

------------------------------------------------------------------------------
\* Sign-in and sign-out

\* requireAuth: the account of the session still exists.
Authenticated == session \in Elements(users)

\* useCurrentUser asks who is signed in; AdminRoute sends nobody to /login.
CurrentUser ==
    /\ view = "loading"
    /\ \/ Authenticated /\ Enter(session)
       \/ /\ ~Authenticated \/ MayFail
          /\ view' = "login"
          /\ UNCHANGED <<store, place, lists>>
    /\ UNCHANGED <<api, session, deletion, leaving, shownFrom>>

\* useLogin, and LoginPage's way back to /.
Login(a) ==
    /\ view = "login"
    /\ a \in Elements(users)
    /\ session' = a
    /\ Enter(a)
    /\ UNCHANGED <<api, deletion, leaving, shownFrom>>

\* The button of AdminLayout and of the 403 page, disabled while pending.  The
\* click changes nothing else, so it is one step with what the API does.
Logout ==
    /\ view = "admin"
    /\ ~leaving
    /\ leaving' = TRUE
    /\ \/ Authenticated /\ session' = NoUser
       \/ (~Authenticated \/ MayFail) /\ UNCHANGED session
    /\ UNCHANGED <<api, view, store, place, lists, deletion, shownFrom>>

\* Mutant: the cached lists outlive the user.
KeepQueries == UNCHANGED lists

\* queryClient.clear(): nobody waits any more for what is in flight.
ClearQueries ==
    /\ cache' = [k \in Key |-> NoList]
    /\ failed' = [k \in Key |-> FALSE]
    /\ fetch' = [k \in Key |-> NoFetch]

\* reset, on success and on error.  AdminRoute is still mounted and asks again
\* who is signed in, unless the router has left for /login first.
ReceiveLogout ==
    /\ leaving
    /\ leaving' = FALSE
    /\ store' = NoUser
    /\ view' \in {"loading", "login"}
    /\ ClearQueries
    /\ deletion' = [deletion EXCEPT !.mine = FALSE]
    /\ UNCHANGED <<api, session, place, shownFrom>>

------------------------------------------------------------------------------
\* The page

\* onSearch: a new term starts at its first page.
Search(term) ==
    /\ Mounted
    /\ key # FirstPage(term)
    /\ Observe(FirstPage(term))
    /\ UNCHANGED <<api, account, deletion, leaving, shownFrom>>

\* The pager is there when there is more than one page, and its buttons wait
\* for the fetch in flight.
Pager ==
    /\ Mounted /\ ~Fetching(key) /\ Known(key)
    /\ TotalPages(cache[key].total, LIMIT) > 1

\* Mutant: hasNextPage: page <= totalPages.
NextUpToTotal == key.page <= TotalPages(cache[key].total, LIMIT)

MayTurnNext == HasNextPage(key.page, LIMIT, cache[key].total)

NextPage ==
    /\ Pager
    /\ MayTurnNext
    /\ Observe([key EXCEPT !.page = @ + 1])
    /\ UNCHANGED <<api, account, deletion, leaving, shownFrom>>

PreviousPage ==
    /\ Pager
    /\ HasPreviousPage(key.page)
    /\ Observe([key EXCEPT !.page = @ - 1])
    /\ UNCHANGED <<api, account, deletion, leaving, shownFrom>>

\* onDelete: any row shown but one's own, one deletion of this page at a time.
\* (The slot is the bound: a deletion that outlives a logout blocks the next.)
Delete(a) ==
    /\ Mounted
    /\ a \in Elements(Shown.items) /\ a # store
    /\ deletion.pc = "none"
    /\ deletion' = [pc |-> "sent", target |-> a, by |-> session, mine |-> TRUE, at |-> 0]
    /\ UNCHANGED <<api, account, place, lists, leaving, shownFrom>>

------------------------------------------------------------------------------
\* The API

Allowed == Authenticated /\ session \in Admin

\* Mutant: the count without the search.
CountAll(k) == Len(users)

Total(k) == Count(users, Hits(k.term))

Items(k) == Find(users, Hits(k.term), PageOf(k.page), LimitOf(LIMIT))

\* Behind requireAuth and requireAdmin the two queries of paginate are sent
\* together: one is answered,
FirstQuery(k) ==
    /\ fetch[k].pc = "sent"
    /\ Allowed
    /\ \/ fetch' = [fetch EXCEPT ![k].pc = "items", ![k].list.by = session,
                                 ![k].list.items = Items(k)]
       \/ fetch' = [fetch EXCEPT ![k].pc = "total", ![k].list.by = session,
                                 ![k].list.total = Total(k)]
    /\ UNCHANGED <<api, account, place, cache, failed, deletion, leaving, shownFrom>>

\* then the other, and the page receives both.
SecondQuery(k) ==
    /\ \/ /\ fetch[k].pc = "items"
          /\ cache' = [cache EXCEPT ![k] = [fetch[k].list EXCEPT !.total = Total(k)]]
       \/ /\ fetch[k].pc = "total"
          /\ cache' = [cache EXCEPT ![k] = [fetch[k].list EXCEPT !.items = Items(k)]]
    /\ failed' = [failed EXCEPT ![k] = FALSE]
    /\ fetch' = [fetch EXCEPT ![k] = NoFetch]
    /\ UNCHANGED <<api, account, place, deletion, leaving, shownFrom>>

\* Refused, or failed, for the last time: the retries before it leave nothing.
ReceiveError(k) ==
    /\ Fetching(k)
    /\ MayFail \/ (fetch[k].pc = "sent" /\ ~Allowed)
    /\ failed' = [failed EXCEPT ![k] = TRUE]
    /\ fetch' = [fetch EXCEPT ![k] = NoFetch]
    /\ UNCHANGED <<api, account, place, cache, deletion, leaving, shownFrom>>

\* gcTime: a list that nobody looks at is dropped after a while.
Collect(k) ==
    /\ ~(Mounted /\ k = key)
    /\ Known(k) /\ ~Fetching(k)
    /\ cache' = [cache EXCEPT ![k] = NoList]
    /\ failed' = [failed EXCEPT ![k] = FALSE]
    /\ UNCHANGED <<api, account, place, fetch, deletion, leaving, shownFrom>>

Remove(a) == users' = Selected(users, Account \ {a})

\* deleteUser: the account, then its sessions; when only the second fails, the
\* account is gone and the answer an error.
ServeDelete ==
    /\ deletion.pc = "sent"
    /\ deletion.by = session /\ Allowed
    /\ deletion.target \in Elements(users)
    /\ changes < MaxChanges
    /\ Remove(deletion.target)
    /\ changes' = changes + 1
    /\ \/ deletion' = [deletion EXCEPT !.pc = "done", !.at = changes']
       \/ MayFail /\ deletion' = [deletion EXCEPT !.pc = "refused"]
    /\ UNCHANGED <<unborn, account, place, lists, leaving, shownFrom>>

\* Not signed in any more, already deleted, or failed.
RefuseDelete ==
    /\ deletion.pc = "sent"
    /\ \/ deletion.by # session \/ ~Allowed
       \/ deletion.target \notin Elements(users)
       \/ MayFail
    /\ deletion' = [deletion EXCEPT !.pc = "refused"]
    /\ UNCHANGED <<api, account, place, lists, leaving, shownFrom>>

\* Mutant: onSuccess forgotten.
InvalidateNothing == UNCHANGED lists

\* invalidateQueries(['users']): the key on the page is fetched again, and the
\* fetch in flight dropped if there is a list already.  A list that nobody
\* looks at is fetched when the page turns to it, as any other.
Invalidate ==
    /\ fetch' = IF Mounted
                   THEN [fetch EXCEPT ![key] = IF Known(key) THEN NewFetch ELSE Joined(key)]
                   ELSE fetch
    /\ UNCHANGED <<cache, failed>>

\* A fetch in flight that the invalidation does not replace: it may have read
\* the collection before the deletion.
Overlapped == \E k \in Key : Fetching(k) /\ ~(Mounted /\ k = key /\ Known(k))

ReceiveDeleted ==
    /\ deletion.pc = "done"
    /\ Invalidate
    /\ shownFrom' = IF Overlapped THEN shownFrom ELSE deletion.at
    /\ deletion' = NoDeletion
    /\ UNCHANGED <<api, account, place, leaving>>

ReceiveNotDeleted ==
    /\ deletion.pc = "refused"
    /\ deletion' = NoDeletion
    /\ UNCHANGED <<api, account, place, lists, leaving, shownFrom>>

------------------------------------------------------------------------------
\* Everybody else

Register(a) ==
    /\ a \in unborn /\ changes < MaxChanges
    /\ users' = <<a>> \o users
    /\ unborn' = unborn \ {a}
    /\ changes' = changes + 1
    /\ UNCHANGED <<account, place, lists, deletion, leaving, shownFrom>>

RemoveElsewhere(a) ==
    /\ a \in Elements(users) /\ changes < MaxChanges
    /\ Remove(a)
    /\ changes' = changes + 1
    /\ UNCHANGED <<unborn, account, place, lists, deletion, leaving, shownFrom>>

Next ==
    \/ CurrentUser \/ Logout \/ ReceiveLogout
    \/ \E term \in Term : Search(term)
    \/ NextPage \/ PreviousPage
    \/ \E a \in Account : Login(a) \/ Delete(a) \/ Register(a) \/ RemoveElsewhere(a)
    \/ \E k \in Key : FirstQuery(k) \/ SecondQuery(k) \/ ReceiveError(k)
                      \/ Collect(k)
    \/ ServeDelete \/ RefuseDelete \/ ReceiveDeleted \/ ReceiveNotDeleted

Spec == Init /\ [][Next]_vars

------------------------------------------------------------------------------
\* A settled list whose collection has not been written since its fetch began
\* is the page that was asked for: the accounts of that page and no other, and the
\* total that the pager counts with, whichever query was answered first.
SettledListIsCurrent ==
    Settled /\ cache[key].since = changes =>
        LET hits == Selected(users, Hits(key.term))
            onPage == {i \in DOMAIN hits : (i - 1) \div LIMIT = key.page - 1}
        IN  /\ Elements(cache[key].items) = {hits[i] : i \in onPage}
            /\ cache[key].total = Cardinality(Elements(users) \cap Hits(key.term))

\* A deletion that was answered is in every list that settles afterwards, on
\* whatever page and term, although lists fetched before it stay cached.  (A
\* first fetch that was in flight then is joined and not repeated.)
DeletionIsReflected == Settled => cache[key].since >= shownFrom

\* The pager never leads past the last page: the page asked for exists, unless
\* accounts have been deleted since.
NeverPastTheEnd ==
    Mounted /\ Elements(users) \cup unborn = Account =>
        \/ key.page = 1
        \/ key.page <= TotalPages(Count(users, Hits(key.term)), LIMIT)

\* No list outlives the session it was answered to: after a sign-out, whoever
\* signs in sees nothing that was fetched for somebody else.
ListsBelongToTheUser ==
    Mounted => \A k \in Key : Known(k) => cache[k].by = store
=============================================================================
