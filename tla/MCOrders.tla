------------------------------ MODULE MCOrders ------------------------------
(* Small instances of Orders.  Orders o1 and o2 belong to m1, o3 to m2.    *)
EXTENDS Orders, TLC

CONSTANTS o1, o2, o3, m1, m2, alipay

OwnedByOne == [o \in OrderIds |-> m1]
OwnedByTwo == [o \in OrderIds |-> IF o = o3 THEN m2 ELSE m1]

(* The merchant's floating setting and the one it may change it to.        *)
UpOne == {[up |-> TRUE, limit |-> 1]}
UpOrDown == {[up |-> TRUE, limit |-> 1], [up |-> FALSE, limit |-> 1]}

SymmetricOwned == Permutations({o1, o2})   \* those of m1
=============================================================================
