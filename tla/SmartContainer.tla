--------------------------- MODULE SmartContainer ---------------------------
(***************************************************************************)
(* topics/memory/smart_container/SmartContainer.h: two containers of the   *)
(* same element type, and one iterator.  The type is int (trivial) or      *)
(* demo.cpp's TestObject (nontrivial), whose objects have a lifetime: a    *)
(* cell of a buffer holds a live object or not.  An operation on a dead    *)
(* object, or through a pointer into a freed buffer, is undefined: nothing *)
(* is modelled after it.  An object written over by placement new is       *)
(* leaked: its destructor never runs.                                      *)
(***************************************************************************)
EXTENDS Naturals, Sequences

CONSTANTS Values, MaxSize      \* MaxSize bounds the elements of both containers

VARIABLES nontrivial,          \* T is TestObject
          obj,                 \* container -> [data_, cells, size_, capacity_]
          it,                  \* an iterator the program keeps
          undefined, leaked,
          plain                \* the program pushes no own element, and it neither emplaces,
                               \* removes nor shrinks when T is TestObject

vars == <<nontrivial, obj, it, undefined, leaked, plain>>
Containers == {"a", "b"}
Default == 0                   \* a value-initialised T, none of Values
nullptr == 0

\* TestObject's constructors; int's value-initialisation
Cell(x) == [v |-> x, alive |-> TRUE]
\* ~TestObject: nothing reads what the memory still holds
Dead == [v |-> Default, alive |-> ~nontrivial]

\* SmartContainer()
Empty == [data_ |-> nullptr, cells |-> <<>>, size_ |-> 0, capacity_ |-> 0]
\* a buffer no pointer refers to
Fresh == CHOOSE n \in 1..4 : n \notin {obj[c].data_ : c \in Containers} \cup {it.buf}

\* new T[n]{} and make_unique<T[]>(n), and the old elements moved in
reserve_all_but_one(s, n) ==
  IF n <= s.capacity_ THEN s
  ELSE [s EXCEPT !.data_ = Fresh, !.capacity_ = n,
                 !.cells = [k \in 1..n |-> IF k < s.size_ THEN s.cells[k] ELSE Cell(Default)]]
reserve_raw(s, n) ==
  IF n <= s.capacity_ THEN s
  ELSE [s EXCEPT !.data_ = Fresh, !.capacity_ = n,
                 !.cells = [k \in 1..n |-> IF k <= s.size_ THEN s.cells[k] ELSE Dead]]
reserve(s, n) ==
  IF n <= s.capacity_ THEN s
  ELSE [s EXCEPT !.data_ = Fresh, !.capacity_ = n,
                 !.cells = [k \in 1..n |-> IF k <= s.size_ THEN s.cells[k] ELSE Cell(Default)]]
GrownEarly(s) == IF s.size_ + 1 >= s.capacity_ THEN reserve(s, s.capacity_ * 2 + 1) ELSE s
Grown(s) ==
  IF s.size_ = s.capacity_ THEN reserve(s, IF s.capacity_ = 0 THEN 1 ELSE s.capacity_ * 2) ELSE s
\* data_[size_++] = value: TestObject's assignments
Stored(s, x) == [s EXCEPT !.size_ = @ + 1, !.cells[s.size_ + 1].v = x]
PushBack(s, x) == Stored(Grown(s), x)
\* reserve and push_back of every element: the initializer-list and copy constructors
Filled(xs) ==
  LET Pushed[n \in 0..Len(xs)] ==
        IF n = 0 THEN reserve(Empty, Len(xs)) ELSE PushBack(Pushed[n - 1], xs[n])
  IN Pushed[Len(xs)]

Contents(s) == [k \in 1..s.size_ |-> s.cells[k].v]
DeadCells(s) == nontrivial /\ \E k \in DOMAIN s.cells : ~s.cells[k].alive
DeadNext(s) == nontrivial /\ s.size_ < s.capacity_ /\ ~s.cells[s.size_ + 1].alive
Full(s) == s.size_ = s.capacity_

\* iterators are pointers into the buffer; one that is no longer valid is forgotten
begin(c) == [buf |-> obj[c].data_, pos |-> 0]
end(c) == [buf |-> obj[c].data_, pos |-> obj[c].size_]
Plus(i, n) == [i EXCEPT !.pos = @ + n]
NoIterator == [buf |-> nullptr, pos |-> 0]
PointsInto(o, i) == \E c \in Containers : i.buf = o[c].data_ /\ i.pos < o[c].size_

\* the containers become new; after undefined behaviour (bad) nothing is known of them
Result(bad, new) ==
  /\ ~undefined /\ undefined' = bad
  /\ obj' = IF bad THEN obj ELSE new
  /\ it' = IF PointsInto(obj', it) THEN it ELSE NoIterator
  /\ UNCHANGED <<nontrivial, plain>>
Risky == ~(plain /\ nontrivial)
Fits(n) == obj["a"].size_ + obj["b"].size_ + n <= MaxSize

Init ==
  /\ nontrivial \in BOOLEAN
  /\ obj = [c \in Containers |-> Empty]
  /\ it = NoIterator
  /\ undefined = FALSE /\ leaked = FALSE /\ plain \in BOOLEAN

\* both overloads: a moved argument belongs to the caller
push_back(c) ==
  \E x \in Values :
    /\ Fits(1) /\ UNCHANGED leaked
    /\ Result(DeadNext(obj[c]) \/ (Full(obj[c]) /\ DeadCells(obj[c])),
              [obj EXCEPT ![c] = PushBack(@, x)])

\* the element's assignment throws, after size_++
push_back_throws(c) ==
  /\ nontrivial /\ Fits(1) /\ UNCHANGED leaked
  /\ Result(DeadNext(obj[c]) \/ (Full(obj[c]) /\ DeadCells(obj[c])),
            [obj EXCEPT ![c] = LET s == Grown(@) IN [s EXCEPT !.size_ = @ + 1]])

\* push_back(c[k]): the reference outlives the buffer when the container grows
push_back_own(c) ==
  \E k \in 1..obj[c].size_ :
    /\ Fits(1) /\ ~plain /\ UNCHANGED leaked
    /\ Result(DeadNext(obj[c]) \/ Full(obj[c]),
              [obj EXCEPT ![c] = PushBack(@, @.cells[k].v)])

\* placement new in a cell that holds a default-constructed object
emplace_back(c) ==
  \E x \in Values :
    LET s == Grown(obj[c])  k == s.size_ + 1 IN
    /\ Fits(1) /\ Risky
    /\ leaked' = (leaked \/ (nontrivial /\ s.cells[k].alive))
    /\ Result(Full(obj[c]) /\ DeadCells(obj[c]),
              [obj EXCEPT ![c] = [s EXCEPT !.size_ = k, !.cells[k] = Cell(x)]])

\* an empty container throws and stays as it is
pop_back(c) ==
  /\ obj[c].size_ > 0 /\ Risky /\ UNCHANGED leaked
  /\ Result(FALSE, [obj EXCEPT ![c].size_ = @ - 1, ![c].cells[obj[c].size_] = Dead])

clear(c) ==
  /\ Risky /\ UNCHANGED leaked
  /\ Result(FALSE,
       [obj EXCEPT ![c].size_ = 0,
                   ![c].cells = [k \in DOMAIN @ |-> IF k <= obj[c].size_ THEN Dead ELSE @[k]]])

\* uninitialized_move over default-constructed objects, destroy, and delete[] again
shrink_to_fit(c) ==
  LET s == obj[c] IN
  /\ s.capacity_ > s.size_ /\ Risky
  /\ leaked' = (leaked \/ (nontrivial /\ s.size_ > 0))
  /\ Result(nontrivial /\ (s.size_ > 0 \/ DeadCells(s)),
            [obj EXCEPT ![c] = [s EXCEPT !.data_ = Fresh, !.capacity_ = s.size_,
                                         !.cells = SubSeq(s.cells, 1, s.size_)]])

\* ~SmartContainer, and a new container from a list of two elements or from none
construct(c) ==
  \E xs \in [1..2 -> Values] \cup {<<>>} :
    Fits(Len(xs) - obj[c].size_) /\ UNCHANGED leaked /\ Result(DeadCells(obj[c]), [obj EXCEPT ![c] = Filled(xs)])

\* c = d: a copy of d swapped in, the old buffer destroyed; a copy that throws changes nothing
copy_assign(c, d) ==
  /\ c # d /\ Fits(obj[d].size_ - obj[c].size_) /\ UNCHANGED leaked
  /\ Result(DeadCells(obj[c]), [obj EXCEPT ![c] = Filled(Contents(obj[d]))])

\* c = std::move(d), and the move constructor into a new c
move_assign(c, d) ==
  /\ c # d /\ UNCHANGED leaked
  /\ Result(DeadCells(obj[c]), [obj EXCEPT ![c] = obj[d], ![d] = Empty])

swap(c, d) ==
  /\ c # d /\ UNCHANGED leaked
  /\ Result(FALSE, [obj EXCEPT ![c] = obj[d], ![d] = obj[c]])

\* c[pos] = x, at(pos), front(), back(); at throws beyond the end
assign_at(c) ==
  \E k \in 1..obj[c].size_, x \in Values :
    UNCHANGED leaked /\ Result(FALSE, [obj EXCEPT ![c].cells[k].v = x])

\* the program finds an element and keeps its iterator
find(c) ==
  /\ ~undefined
  /\ \E n \in 0..obj[c].size_ - 1 : it' = Plus(begin(c), n) /\ it' # end(c)
  /\ UNCHANGED <<nontrivial, obj, undefined, leaked, plain>>

\* undefined behaviour: nothing is known of what follows
Anything == undefined /\ UNCHANGED vars

Next ==
  \/ \E c \in Containers :
       \/ push_back(c) \/ push_back_throws(c) \/ push_back_own(c) \/ emplace_back(c)
       \/ pop_back(c) \/ clear(c) \/ shrink_to_fit(c) \/ construct(c) \/ assign_at(c)
       \/ find(c)
  \/ \E c, d \in Containers : copy_assign(c, d) \/ move_assign(c, d) \/ swap(c, d)
  \/ Anything
Spec == Init /\ [][Next]_vars

----------------------------------------------------------------------------
(* The containers are sequences of values: growing, shrinking, copying and *)
(* moving keep the elements, in order, and leave the other container be.   *)
Sequences1 == INSTANCE SequenceObjects
  WITH Objects <- Containers, seqs <- [c \in Containers |-> Contents(obj[c])]
ImplementsSequences == Sequences1!Spec

(* "No memory leaks due to RAII design" (SmartContainer.h:37): every       *)
(* object is constructed and destroyed exactly once.                       *)
LifetimesExact == ~undefined /\ ~leaked

(* Objects are constructed and destroyed once, and no freed buffer is read *)
(* by the container, as long as the program pushes no own element and,     *)
(* with elements such as TestObject, neither emplaces, removes nor shrinks.*)
PlainUseIsSafe == plain => LifetimesExact

(* Growth is the only way a push invalidates an iterator: pushes within    *)
(* the capacity, swaps and moves from the container leave the element      *)
(* where the iterator points.                                              *)
Within(c) == ~Full(obj[c]) /\ (push_back(c) \/ push_back_own(c) \/ emplace_back(c))
IteratorsSurvive ==
  [][(\/ \E c \in Containers : Within(c)
      \/ \E c, d \in Containers : swap(c, d) \/ (it.buf # obj[c].data_ /\ move_assign(c, d)))
     => it' = it]_vars
=============================================================================
