---------------------------- MODULE MCMigration ----------------------------
EXTENDS Migration, TLC

CONSTANT h1

OrderFill == [h \in {h1} |-> "ORDER_FILL"]
\* The commitment is listed as expired or to be cancelled.
EitherList == {<<{h1}, {}>>, <<{}, {h1}>>}
=============================================================================
