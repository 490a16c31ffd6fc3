\* Every vector of up to three of four numbers.
SPECIFICATION Spec
CONSTANTS
  Algorithms = {"BinarySearch", "BinarySearchInsertion", "twoSumHashTable", "selectionSort", "bubbleSort", "insertionSort"}
  Numbers = {1, 2, 3, 4}
  MaxLength = 3
CHECK_DEADLOCK FALSE
PROPERTIES
  ReturnsRight
