------------------------- MODULE MCNotificationCenter -------------------------
(* Small instances of NotificationCenter: two centers with one name each,  *)
(* callbacks that call the other center, and the first its own as well.    *)
EXTENDS NotificationCenter

CONSTANTS c1, c2, n1, n2

MCCenterOf == [n \in Names |-> IF n = n2 THEN c2 ELSE c1]
MCReaches == {<<c1, c1>>, <<c1, c2>>, <<c2, c1>>}
MCAll ==
  {"addObserver", "addObserverAt", "removeObserver", "removeObserverAt",
   "removeObservers", "removeAllObservers", "postNotification",
   "postNotificationAt", "getNotificationIterator"}

MCSymmetry == Permutations(Threads)
===============================================================================
