-------------------------- MODULE MCParentDelivery --------------------------
EXTENDS ParentDelivery, TLC

\* The deliveries are interchangeable.
DeliverySymmetry == Permutations(Deliveries)
=============================================================================
