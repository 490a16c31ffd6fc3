------------------------- MODULE ClassicAlgorithms --------------------------
(***************************************************************************)
(* topics/appendix/classic_algorithms: search.cpp and sort.cpp, one step   *)
(* per turn of the innermost loop.  Indices are the code's, from 0.        *)
(***************************************************************************)
EXTENDS Integers, Sequences, SequencesExt

CONSTANTS Algorithms, Numbers, MaxLength    \* MaxLength bounds the vectors

VARIABLES alg, input, target, nums,
          i, j,
          k,           \* selectionSort's k, bubbleSort's flag, insertionSort's base
          result       \* what the function returned, or Running

vars == <<alg, input, target, nums, i, j, k, result>>
Searches == {"BinarySearch", "BinarySearchInsertion"}
Sorts == {"selectionSort", "bubbleSort", "insertionSort"}
Running == <<-2>>
Done == <<-3>>

n == Len(nums)
At(x) == nums[x + 1]
Swapped(x, y) == [nums EXCEPT ![x + 1] = At(y), ![y + 1] = At(x)]
Ascending(s) == \A x, y \in DOMAIN s : x < y => s[x] <= s[y]
Returns(r) == result' = r
Goes == result = Running
Fixed == UNCHANGED <<alg, input, target>>

\* the binary searches are given sorted vectors
Init ==
  /\ alg \in Algorithms /\ target \in Numbers
  /\ input \in UNION {[1..l -> Numbers] : l \in 0..MaxLength}
  /\ alg \in Searches => Ascending(input)
  /\ nums = input /\ result = Running /\ k = 0
  /\ i = (IF alg = "insertionSort" THEN 1 ELSE IF alg = "bubbleSort" THEN n - 1 ELSE 0)
  /\ j = (IF alg \in Searches THEN n - 1 ELSE IF alg = "selectionSort" THEN 1 ELSE 0)

\* m = (i + (j - i)) / 2
Middle == (i + (j - i)) \div 2

BinarySearch ==
  /\ alg = "BinarySearch" /\ Goes
  /\ \/ i > j /\ Returns(<<-1>>) /\ UNCHANGED <<i, j>>
     \/ /\ i <= j
        /\ \/ At(Middle) < target /\ i' = Middle + 1 /\ UNCHANGED <<j, result>>
           \/ At(Middle) > target /\ j' = Middle - i /\ UNCHANGED <<i, result>>
           \/ At(Middle) = target /\ Returns(<<Middle>>) /\ UNCHANGED <<i, j>>
  /\ UNCHANGED <<nums, k>> /\ Fixed

InsertionAfterEqual ==
  /\ alg = "BinarySearchInsertion" /\ Goes
  /\ \/ i > j /\ Returns(<<i>>) /\ UNCHANGED <<i, j>>
     \/ i <= j /\ At(Middle) <= target /\ i' = Middle + 1 /\ UNCHANGED <<j, result>>
     \/ i <= j /\ At(Middle) > target /\ j' = Middle - 1 /\ UNCHANGED <<i, result>>
  /\ UNCHANGED <<nums, k>> /\ Fixed
BinarySearchInsertion ==
  /\ alg = "BinarySearchInsertion" /\ Goes
  /\ \/ i > j /\ Returns(<<i>>) /\ UNCHANGED <<i, j>>
     \/ i <= j /\ At(Middle) < target /\ i' = Middle + 1 /\ UNCHANGED <<j, result>>
     \/ i <= j /\ At(Middle) >= target /\ j' = Middle - 1 /\ UNCHANGED <<i, result>>
  /\ UNCHANGED <<nums, k>> /\ Fixed

\* dict.emplace keeps the first index of a number
twoSumHashTable ==
  LET earlier == {x \in 0..i - 1 : At(x) = target - At(i)} IN
  /\ alg = "twoSumHashTable" /\ Goes
  /\ \/ i = n /\ Returns(<<>>) /\ UNCHANGED i
     \/ /\ i < n /\ earlier # {} /\ UNCHANGED i
        /\ Returns(<<CHOOSE x \in earlier : \A y \in earlier : x <= y, i>>)
     \/ i < n /\ earlier = {} /\ i' = i + 1 /\ UNCHANGED result
  /\ UNCHANGED <<nums, j, k>> /\ Fixed

\* the exchange is inside the loop that looks for the smallest element
selectionSort ==
  /\ alg = "selectionSort" /\ Goes
  /\ \/ i >= n - 1 /\ Returns(Done) /\ UNCHANGED <<nums, i, j, k>>
     \/ /\ i < n - 1 /\ j < n
        /\ k' = (IF At(j) < At(k) THEN j ELSE k)
        /\ nums' = Swapped(i, k') /\ j' = j + 1 /\ UNCHANGED <<i, result>>
     \/ i < n - 1 /\ j = n /\ i' = i + 1 /\ k' = i + 1 /\ j' = i + 2 /\ UNCHANGED <<nums, result>>
  /\ Fixed

bubbleSort ==
  /\ alg = "bubbleSort" /\ Goes
  /\ \/ i <= 0 /\ Returns(Done) /\ UNCHANGED <<nums, i, j, k>>
     \/ /\ i > 0 /\ j < i /\ j' = j + 1
        /\ IF At(j) > At(j + 1) THEN nums' = Swapped(j, j + 1) /\ k' = 1 ELSE UNCHANGED <<nums, k>>
        /\ UNCHANGED <<i, result>>
     \/ i > 0 /\ j = i /\ k = 0 /\ Returns(Done) /\ UNCHANGED <<nums, i, j, k>>
     \/ i > 0 /\ j = i /\ k = 1 /\ i' = i - 1 /\ j' = 0 /\ k' = 0 /\ UNCHANGED <<nums, result>>
  /\ Fixed

\* j + 1 is the hole that base, once read, is put into
insertionSort ==
  /\ alg = "insertionSort" /\ Goes
  /\ \/ i >= n /\ Returns(Done) /\ UNCHANGED <<nums, i, j, k>>
     \/ i < n /\ k = 0 /\ k' = At(i) /\ j' = i - 1 /\ UNCHANGED <<nums, i, result>>
     \/ /\ i < n /\ k # 0 /\ j >= 0 /\ At(j) > k
        /\ nums' = [nums EXCEPT ![j + 2] = At(j)] /\ j' = j - 1 /\ UNCHANGED <<i, k, result>>
     \/ /\ i < n /\ k # 0 /\ ~(j >= 0 /\ At(j) > k)
        /\ nums' = [nums EXCEPT ![j + 2] = k] /\ i' = i + 1 /\ k' = 0 /\ UNCHANGED <<j, result>>
  /\ Fixed

Next ==
  \/ BinarySearch \/ BinarySearchInsertion \/ twoSumHashTable
  \/ selectionSort \/ bubbleSort \/ insertionSort
(* A call goes on until it returns. *)
Spec == Init /\ [][Next]_vars /\ WF_vars(Next)

----------------------------------------------------------------------------
\* s with its elements in another order
Rearranged(s, t) == \E p \in Bijection(DOMAIN t, DOMAIN s) : \A x \in DOMAIN t : t[x] = s[p[x]]

\* what each function is for
Right ==
  CASE alg = "BinarySearch" ->
         IF target \in ToSet(input) THEN result[1] >= 0 /\ At(result[1]) = target ELSE result = <<-1>>
    [] alg = "BinarySearchInsertion" ->
         \A x \in DOMAIN nums : nums[x] < target <=> x <= result[1]
    [] alg = "twoSumHashTable" ->
         IF result = <<>> THEN \A x, y \in DOMAIN nums : x # y => nums[x] + nums[y] # target
         ELSE result[1] < result[2] /\ At(result[1]) + At(result[2]) = target
    [] OTHER -> Ascending(nums) /\ Rearranged(input, nums)

\* while a search goes on, what it looks for is between i and j
KeepsPlace ==
  CASE alg = "BinarySearch" -> \A x \in DOMAIN nums : nums[x] = target => x > i /\ x <= j + 1
    [] alg = "BinarySearchInsertion" ->
         \A x \in DOMAIN nums : (x <= i => nums[x] < target) /\ (x > j + 1 => nums[x] >= target)
    [] OTHER -> TRUE
\* the middle is half of j wherever i is, so a turn that has moved i and
\* left it within the bounds is taken again and again
MovesOnce == alg \in Searches => i = 0 \/ i > j \/ (i = Middle + 1 /\ At(Middle) < target)

(* What a search or a sort returns is right: a vector sorted by bubbleSort *)
(* or insertionSort is a sorted permutation of the input and selectionSort *)
(* loses no number, twoSum finds two places if there are any, and a binary *)
(* search that returns returns the right place.  That it returns is not    *)
(* said, for it need not: one that goes on has its target between its      *)
(* bounds, but when the lower of them has moved without passing the upper  *)
(* one it goes on for ever, with the target in the vector or not.          *)
AlgorithmsRight ==
  IF Goes THEN KeepsPlace /\ MovesOnce
  ELSE IF alg = "selectionSort" THEN Rearranged(input, nums) ELSE Right

(* Every call returns, and returns the right thing: BinarySearch keeps the *)
(* target "in [m+1, j]" or "in [i, m-1]" (search.cpp:13,16), the other one *)
(* is to "find the fisrt appearance the number < target" (search.cpp:28),  *)
(* selectionSort exchanges "the smallest element with the first element in *)
(* segment" (sort.cpp:17).  A turn of a loop that leaves i and j as they   *)
(* were is repeated for ever.                                              *)
ReturnsRight == <>(~Goes /\ Right)
=============================================================================
