\* Three documents, stored word by word, and requests of every kind.
CONSTANTS
  p1 = p1  p2 = p2  p3 = p3
  Space = " "
  Plus = "+"
  Latin = {"a", "A", "b"}
  Cyrillic = {"j", "J"}
  Digit = {"7"}
  Mark = {".", ",", "?"}
  Kept = {"-"}
  Foreign = {"quote"}
  Lower <- ToSmall
  Page = {p1, p2, p3}
  Document <- Pages
  Requests <- Bodies
  Files = {"marked", "missing"}
  min_word_length = 1
  max_word_length = 6
  search_results = 2
SPECIFICATION Spec
PROPERTIES
  PagesAreFound
  
  
