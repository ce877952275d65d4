------------------------------ MODULE Bookings ------------------------------
(***************************************************************************)
(* The collection bookings, BookingManager's operations on it and the      *)
(* screen of BookingVC: three lists, a segmented control that chooses one, *)
(* and a collection view that remembers how many rows it was told of.      *)
(*                                                                         *)
(* The app calls only getBookings(forUserId:).  createBooking,             *)
(* updateBooking and deleteBooking are modelled as a caller would use      *)
(* them: with new ids, and with bookings the screen has been given.        *)
(***************************************************************************)
EXTENDS Integers, FiniteSets, Sequences

CONSTANTS Id,        \* booking ids, also the documents named after them
          AutoName,  \* the names addDocument gives
          Mine,      \* the salon of this owner
          Other,     \* some other salon
          NoDate,    \* an expiry date that is missing or cannot be parsed
          MaxTime,   \* bound: how long the clock runs
          Queries,   \* appearances of the screen
          None       \* no document

Name == AutoName \cup Id
Time == 0..MaxTime

ASSUME BookingsAssumption ==
  /\ IsFiniteSet(AutoName) /\ IsFiniteSet(Id)
  /\ AutoName \cap Id = {}
  /\ Mine # Other
  /\ MaxTime \in Nat
  /\ NoDate \notin Time

\* The fields the properties tell apart; valid: id, salonId and userId have their types.
Booking == [id: Id, salon: {Mine, Other}, expiry: Time \cup {NoDate}, valid: BOOLEAN]

ASSUME NoneAssumption == None \notin Booking

VARIABLES
  docs,      \* docs[n]: the document named n
  now,       \* the clock
  stage,     \* stage[q]: how far appearance q has come
  answer,    \* answer[q]: the bookings q was answered with, by document
  mainQ,     \* answers waiting on the main queue
  bookings,  \* BookingVC.bookings, by document
  upcoming,  \* BookingVC.UpcommingBooking
  expired,   \* BookingVC.expiredBooking
  segment,   \* segmentControl.selectedSegmentIndex
  rows,      \* the number of items the collection view was told of
  reload     \* reloadData was called and the layout has not asked again

callVars   == <<stage, answer, mainQ>>
listVars   == <<bookings, upcoming, expired>>
viewVars   == <<segment, rows, reload>>
vars == <<docs, now, callVars, listVars, viewVars>>

\* A list of bookings of this salon that could be read, each with the name of the
\* document it was read from.
Read == {b \in Booking : b.salon = Mine /\ b.valid}
Lists == SUBSET [name: Name, booking: Read]

TypeOK ==
  /\ docs \in [Name -> Booking \cup {None}]
  /\ now \in Time
  /\ stage \in [Queries -> {"idle", "querying", "answered", "done", "failed"}]
  /\ answer \in [Queries -> Lists]
  /\ mainQ \in Seq(Queries)
  /\ bookings \in Lists
  /\ upcoming \in Lists
  /\ expired \in Lists
  /\ segment \in 0..2
  /\ rows \in Nat
  /\ reload \in BOOLEAN

Init ==
  /\ docs = [n \in Name |-> None]
  /\ now = 0
  /\ stage = [q \in Queries |-> "idle"]
  /\ answer = [q \in Queries |-> {}]
  /\ mainQ = <<>>
  /\ bookings = {}
  /\ upcoming = {}
  /\ expired = {}
  /\ segment = 0
  /\ rows = 0
  /\ reload = FALSE

Used(i) == \E n \in Name : docs[n] # None /\ docs[n].id = i

-----------------------------------------------------------------------------
(* BookingManager *)

\* addDocument: a new document under a name of its own.
CreateBooking(n, b) ==
  /\ n \in AutoName
  /\ docs[n] = None
  /\ b.valid
  /\ ~Used(b.id)
  /\ docs' = [docs EXCEPT ![n] = b]
  /\ UNCHANGED <<now, callVars, listVars, viewVars>>

\* A document of another client that booking(from:) cannot read.
ForeignDocument(n, b) ==
  /\ n \in AutoName
  /\ docs[n] = None
  /\ ~b.valid
  /\ docs' = [docs EXCEPT ![n] = b]
  /\ UNCHANGED <<now, callVars, listVars, viewVars>>

\* setData(merge: true) on the document named after the id; a nil expiry is left out.
UpdateBooking(b) ==
  LET old == docs[b.id]
      new == IF b.expiry = NoDate /\ old # None THEN [b EXCEPT !.expiry = old.expiry] ELSE b
  IN /\ docs' = [docs EXCEPT ![b.id] = new]
     /\ UNCHANGED <<now, callVars, listVars, viewVars>>

\* delete on the document named after the id succeeds whether or not it exists,
\* and leaves what createBooking added.
DeleteBooking(i) ==
  /\ docs' = [docs EXCEPT ![i] = None]
  /\ UNCHANGED <<now, callVars, listVars, viewVars>>

-----------------------------------------------------------------------------
(* BookingVC *)

ViewWillAppear(q) ==
  /\ stage[q] = "idle"
  /\ stage' = [stage EXCEPT ![q] = "querying"]
  /\ UNCHANGED <<docs, now, answer, mainQ, listVars, viewVars>>

\* Mutant: the bookings of every salon are asked for.
ReadableAnywhere == {n \in Name : docs[n] # None /\ docs[n].valid}

\* The documents of the salon that booking(from:) can read.
Readable == {n \in Name : docs[n] \in Read}

\* getBookings(forUserId:)
GetBookings(q) ==
  /\ stage[q] = "querying"
  /\ stage' = [stage EXCEPT ![q] = "answered"]
  /\ answer' = [answer EXCEPT ![q] = {[name |-> n, booking |-> docs[n]] : n \in Readable}]
  /\ mainQ' = Append(mainQ, q)
  /\ UNCHANGED <<docs, now, listVars, viewVars>>

GetBookingsFails(q) ==
  /\ stage[q] = "querying"
  /\ stage' = [stage EXCEPT ![q] = "failed"]
  /\ UNCHANGED <<docs, now, answer, mainQ, listVars, viewVars>>

\* Mutant: the sorted bookings are added to the lists, which are never emptied.
SortAppending(list) ==
  /\ upcoming' = upcoming \cup {x \in list : x.booking.expiry # NoDate /\ x.booking.expiry > now}
  /\ expired' = expired \cup {x \in list : x.booking.expiry # NoDate /\ x.booking.expiry <= now}

\* sortBookingAccoringToTime: one look at the clock for all of them, a booking
\* without a date in neither list.
Sort(list) ==
  /\ upcoming' = {x \in list : x.booking.expiry # NoDate /\ x.booking.expiry > now}
  /\ expired' = {x \in list : x.booking.expiry # NoDate /\ x.booking.expiry <= now}

\* Mutant: the list is replaced without telling the collection view.
ShowBookingsSilently(q) ==
  /\ mainQ # <<>>
  /\ q = Head(mainQ)
  /\ mainQ' = Tail(mainQ)
  /\ stage' = [stage EXCEPT ![q] = "done"]
  /\ bookings' = answer[q]
  /\ Sort(answer[q])
  /\ UNCHANGED <<docs, now, answer, segment, rows, reload>>

ShowBookings(q) ==
  /\ mainQ # <<>>
  /\ q = Head(mainQ)
  /\ mainQ' = Tail(mainQ)
  /\ stage' = [stage EXCEPT ![q] = "done"]
  /\ bookings' = answer[q]
  /\ Sort(answer[q])
  /\ reload' = TRUE
  /\ UNCHANGED <<docs, now, answer, segment, rows>>

\* Mutant: the control changes the list without telling the collection view.
SegmentChangesSilently(s) ==
  /\ segment' = s
  /\ UNCHANGED <<docs, now, callVars, listVars, rows, reload>>

SegmentControlDidChange(s) ==
  /\ segment' = s
  /\ reload' = TRUE
  /\ UNCHANGED <<docs, now, callVars, listVars, rows>>

\* numberOfItemsInSection; segment 2, the cancelled ones, shows every booking.
ListOf(s) == CASE s = 0 -> upcoming
               [] s = 1 -> expired
               [] s = 2 -> bookings

NumberOfItems == Cardinality(ListOf(segment))

\* The collection view asks for the number of items before it asks for cells again.
LayoutSubviews ==
  /\ reload
  /\ rows' = NumberOfItems
  /\ reload' = FALSE
  /\ UNCHANGED <<docs, now, callVars, listVars, segment>>

Tick ==
  /\ now < MaxTime
  /\ now' = now + 1
  /\ UNCHANGED <<docs, callVars, listVars, viewVars>>

-----------------------------------------------------------------------------
\* The bookings a caller of updateBooking and deleteBooking has in hand, moved to
\* another date or not.
InHand == {[x.booking EXCEPT !.expiry = e] : x \in bookings, e \in Time \cup {NoDate}}

Next ==
  \/ \E n \in Name, b \in Booking : CreateBooking(n, b) \/ ForeignDocument(n, b)
  \/ \E b \in InHand : UpdateBooking(b) \/ DeleteBooking(b.id)
  \/ \E q \in Queries : \/ ViewWillAppear(q)
                        \/ GetBookings(q)
                        \/ GetBookingsFails(q)
                        \/ ShowBookings(q)
  \/ \E s \in 0..2 : SegmentControlDidChange(s)
  \/ LayoutSubviews
  \/ Tick

Spec == Init /\ [][Next]_vars

-----------------------------------------------------------------------------
(* Properties *)

\* When the collection view asks for a cell, the row exists in the list of the
\* chosen segment: no answer and no change of segment leaves it with a number of
\* rows of another list (BookingVC.swift:38-43, 66-69, 78-80, 103-146).
RowsExist == ~reload => rows = NumberOfItems

\* The three lists come from one answer: a booking with a date is in exactly one of
\* the first two, and every upcoming one expires after every expired one
\* (BookingVC.swift:51-69).
ListsAgree ==
  /\ upcoming \cup expired = {x \in bookings : x.booking.expiry # NoDate}
  /\ upcoming \cap expired = {}
  /\ \A u \in upcoming, e \in expired : u.booking.expiry > e.booking.expiry

\* "Update a booking" (BookingManager.swift:135): a booking that is updated stays one
\* booking, so an id is never held by two documents.
OneBookingPerId ==
  \A m, n \in Name : docs[m] # None /\ docs[n] # None /\ docs[m].valid /\ docs[n].valid
                     /\ docs[m].id = docs[n].id => m = n
=============================================================================
