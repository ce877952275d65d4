-------------------------- MODULE BookingsProofs ---------------------------
(***************************************************************************)
(* Type correctness, the rows of the collection view and the agreement of  *)
(* the three lists, for all ids, names, appearances and bounds.            *)
(***************************************************************************)
EXTENDS Bookings, FiniteSetTheorems, TLAPS

\* The lists are finite, or their numbers of items would mean nothing.
Finite ==
  /\ \A q \in Queries : IsFiniteSet(answer[q])
  /\ IsFiniteSet(bookings) /\ IsFiniteSet(upcoming) /\ IsFiniteSet(expired)

TInv == TypeOK /\ Finite

-----------------------------------------------------------------------------
(* The type invariant *)

\* What getBookings passes on is a finite list.
LEMMA AnswerType ==
  LET list == {[name |-> n, booking |-> docs[n]] : n \in Readable}
  IN  list \in Lists /\ IsFiniteSet(list)
<1> DEFINE list == {[name |-> n, booking |-> docs[n]] : n \in Readable}
           f == [n \in Readable |-> [name |-> n, booking |-> docs[n]]]
<1>1. list \in Lists
  BY DEF Lists, Readable
<1>2. IsFiniteSet(Name)
  BY BookingsAssumption, FS_Union DEF Name
<1>3. IsFiniteSet(Readable)
  BY <1>2, FS_Subset DEF Readable
<1>4. f \in Surjection(Readable, list)
  BY DEF Surjection
<1>5. IsFiniteSet(list)
  BY <1>3, <1>4, FS_Surjection
<1>. QED
  BY <1>1, <1>5

\* The two lists sorted out of a list.
LEMMA SortType ==
  ASSUME NEW list \in Lists, IsFiniteSet(list), Sort(list)
  PROVE  /\ upcoming' \in Lists /\ IsFiniteSet(upcoming')
         /\ expired' \in Lists /\ IsFiniteSet(expired')
<1>1. upcoming' \in SUBSET list /\ expired' \in SUBSET list
  BY DEF Sort
<1>2. upcoming' \in Lists /\ expired' \in Lists
  BY <1>1 DEF Lists
<1>3. IsFiniteSet(upcoming') /\ IsFiniteSet(expired')
  BY <1>1, FS_Subset
<1>. QED
  BY <1>2, <1>3

\* The list of the chosen segment has a number of items.
LEMMA NumberType == TInv => NumberOfItems \in Nat
<1> SUFFICES ASSUME TInv PROVE NumberOfItems \in Nat
  OBVIOUS
<1>1. IsFiniteSet(ListOf(segment))
  BY DEF TInv, TypeOK, Finite, ListOf
<1>. QED
  BY <1>1, FS_CardinalityType DEF NumberOfItems

LEMMA InitType == Init => TInv
<1> SUFFICES ASSUME Init PROVE TInv
  OBVIOUS
<1>1. Finite
  BY FS_EmptySet DEF Init, Finite
<1>2. {} \in Lists /\ 0 \in Time
  BY BookingsAssumption DEF Lists, Time
<1>3. docs \in [Name -> Booking \cup {None}] /\ mainQ \in Seq(Queries)
  BY DEF Init
<1>4. /\ stage \in [Queries -> {"idle", "querying", "answered", "done", "failed"}]
      /\ answer \in [Queries -> Lists]
  BY <1>2 DEF Init
<1>5. /\ now \in Time /\ segment \in 0..2 /\ rows \in Nat
      /\ bookings \in Lists /\ upcoming \in Lists /\ expired \in Lists
  BY <1>2 DEF Init
<1>6. reload \in BOOLEAN
  BY DEF Init
<1>7. TypeOK
  BY <1>3, <1>4, <1>5, <1>6 DEF TypeOK
<1>. QED
  BY <1>1, <1>7 DEF TInv

\* A step that leaves the screen, its calls and the clock alone.
LEMMA ScreenKept ==
  ASSUME TInv, UNCHANGED <<now, callVars, listVars, viewVars>>,
         docs' \in [Name -> Booking \cup {None}]
  PROVE  TInv'
  BY DEF TInv, TypeOK, Finite, callVars, listVars, viewVars

LEMMA NextType == TInv /\ [Next]_vars => TInv'
<1> SUFFICES ASSUME TInv, [Next]_vars PROVE TInv'
  OBVIOUS
<1> USE DEF TInv
<1>1. ASSUME NEW n \in Name, NEW b \in Booking, CreateBooking(n, b) \/ ForeignDocument(n, b)
      PROVE  TInv'
  BY <1>1, ScreenKept DEF CreateBooking, ForeignDocument, TypeOK
<1>2. ASSUME NEW b \in InHand, UpdateBooking(b) \/ DeleteBooking(b.id) PROVE TInv'
  <2>1. PICK x \in bookings, e \in Time \cup {NoDate} : b = [x.booking EXCEPT !.expiry = e]
    BY <1>2 DEF InHand
  <2>2. b \in Booking /\ b.id \in Name /\ b.id \in Id
    BY <2>1 DEF TypeOK, Lists, Read, Booking, Name
  <2>3. CASE UpdateBooking(b)
    <3>1. CASE b.expiry = NoDate /\ docs[b.id] # None
      <4>1. docs[b.id] \in Booking
        BY <2>2, <3>1 DEF TypeOK
      <4>2. [b EXCEPT !.expiry = docs[b.id].expiry] \in Booking
        BY <2>2, <4>1 DEF Booking
      <4>. QED
        BY <2>3, <3>1, <4>2, ScreenKept DEF UpdateBooking, TypeOK
    <3>2. CASE ~(b.expiry = NoDate /\ docs[b.id] # None)
      BY <2>2, <2>3, <3>2, ScreenKept DEF UpdateBooking, TypeOK
    <3>. QED
      BY <3>1, <3>2
  <2>4. CASE DeleteBooking(b.id)
    BY <2>2, <2>4, ScreenKept DEF DeleteBooking, TypeOK
  <2>. QED
    BY <1>2, <2>3, <2>4
<1>3. ASSUME NEW q \in Queries, ViewWillAppear(q) \/ GetBookingsFails(q) PROVE TInv'
  BY <1>3 DEF ViewWillAppear, GetBookingsFails, TypeOK, Finite, listVars, viewVars
<1>4. ASSUME NEW q \in Queries, GetBookings(q) PROVE TInv'
  <2>1. PICK list \in Lists : IsFiniteSet(list) /\ answer' = [answer EXCEPT ![q] = list]
    BY <1>4, AnswerType DEF GetBookings
  <2>2. /\ answer' \in [Queries -> Lists]
        /\ \A p \in Queries : IsFiniteSet(answer'[p])
    BY <2>1 DEF TypeOK, Finite
  <2>3. /\ mainQ' \in Seq(Queries)
        /\ stage' \in [Queries -> {"idle", "querying", "answered", "done", "failed"}]
    BY <1>4 DEF GetBookings, TypeOK
  <2>. QED
    BY <1>4, <2>2, <2>3 DEF GetBookings, TypeOK, Finite, listVars, viewVars
<1>5. ASSUME NEW q \in Queries, ShowBookings(q) PROVE TInv'
  <2>1. answer[q] \in Lists /\ IsFiniteSet(answer[q]) /\ Sort(answer[q])
    BY <1>5 DEF ShowBookings, TypeOK, Finite
  <2>2. /\ upcoming' \in Lists /\ IsFiniteSet(upcoming')
        /\ expired' \in Lists /\ IsFiniteSet(expired')
    BY <2>1, SortType
  <2>. QED
    BY <1>5, <2>1, <2>2 DEF ShowBookings, TypeOK, Finite
<1>6. ASSUME NEW s \in 0..2, SegmentControlDidChange(s) PROVE TInv'
  BY <1>6 DEF SegmentControlDidChange, TypeOK, Finite, callVars, listVars
<1>7. CASE LayoutSubviews
  BY <1>7, NumberType DEF LayoutSubviews, TypeOK, Finite, callVars, listVars
<1>8. CASE Tick
  BY <1>8, BookingsAssumption
     DEF Tick, TypeOK, Finite, Time, callVars, listVars, viewVars
<1>9. CASE UNCHANGED vars
  BY <1>9 DEF vars, TypeOK, Finite, callVars, listVars, viewVars
<1>. QED
  BY <1>1, <1>2, <1>3, <1>4, <1>5, <1>6, <1>7, <1>8, <1>9 DEF Next

\* The lists hold bookings of this salon that booking(from:) can read, and nothing else
\* (BookingManager.swift:49-65).
THEOREM TypeCorrect == Spec => []TypeOK
<1>1. Spec => []TInv
  BY InitType, NextType, PTL DEF Spec
<1>2. TInv => TypeOK
  BY DEF TInv
<1>. QED
  BY <1>1, <1>2, PTL

-----------------------------------------------------------------------------
(* Rows and lists *)

\* No step changes the list that is shown, or which one is shown, without asking the
\* collection view to count again (BookingVC.swift:38-43, 78-80, 103-111).
THEOREM Rows == Spec => []RowsExist
<1>1. Init => RowsExist
  BY FS_EmptySet DEF Init, RowsExist, NumberOfItems, ListOf
<1>2. RowsExist /\ [Next]_vars => RowsExist'
  <2> SUFFICES ASSUME RowsExist, [Next]_vars PROVE RowsExist'
    OBVIOUS
  <2>1. CASE UNCHANGED <<listVars, viewVars>>
    BY <2>1 DEF RowsExist, NumberOfItems, ListOf, listVars, viewVars
  <2>2. CASE reload'
    BY <2>2 DEF RowsExist
  <2>3. CASE LayoutSubviews
    BY <2>3 DEF LayoutSubviews, RowsExist, NumberOfItems, ListOf, listVars
  <2>4. UNCHANGED <<listVars, viewVars>> \/ reload' \/ LayoutSubviews
    BY DEF Next, vars, CreateBooking, ForeignDocument, UpdateBooking, DeleteBooking,
           ViewWillAppear, GetBookings, GetBookingsFails, ShowBookings,
           SegmentControlDidChange, Tick
  <2>. QED
    BY <2>1, <2>2, <2>3, <2>4
<1>. QED
  BY <1>1, <1>2, PTL DEF Spec

\* The lists are sorted out of one answer by one look at the clock, so each booking with
\* a date is in exactly one of them and the two do not overlap in time
\* (BookingVC.swift:51-69).
THEOREM Agree == Spec => []ListsAgree
<1>1. Init => ListsAgree
  BY DEF Init, ListsAgree
<1>2. TypeOK /\ ListsAgree /\ [Next]_vars => ListsAgree'
  <2> SUFFICES ASSUME TypeOK, ListsAgree, [Next]_vars PROVE ListsAgree'
    OBVIOUS
  <2>1. CASE UNCHANGED listVars
    BY <2>1 DEF ListsAgree, listVars
  <2>2. ASSUME NEW q \in Queries, ShowBookings(q) PROVE ListsAgree'
    <3>1. bookings' = answer[q] /\ Sort(answer[q])
      BY <2>2 DEF ShowBookings
    <3>2. \A x \in answer[q] : x.booking.expiry # NoDate => x.booking.expiry \in Nat
      BY BookingsAssumption DEF TypeOK, Lists, Read, Booking, Time
    <3>3. now \in Nat
      BY BookingsAssumption DEF TypeOK, Time
    <3>. QED
      BY <3>1, <3>2, <3>3 DEF Sort, ListsAgree
  <2>3. UNCHANGED listVars \/ \E q \in Queries : ShowBookings(q)
    BY DEF Next, vars, CreateBooking, ForeignDocument, UpdateBooking, DeleteBooking,
           ViewWillAppear, GetBookings, GetBookingsFails, SegmentControlDidChange,
           LayoutSubviews, Tick
  <2>. QED
    BY <2>1, <2>2, <2>3
<1>. QED
  BY <1>1, <1>2, TypeCorrect, PTL DEF Spec
=============================================================================
