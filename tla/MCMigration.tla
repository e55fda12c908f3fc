---------------------------- MODULE MCMigration ----------------------------
EXTENDS Migration

\* Three pods, as deployed, that start at once, and somebody who downgrades, twice at most.
CONSTANTS p1, p2, p3, o1, o2

MCPods      == {p1, p2, p3}
MCOperators == {o1, o2}
============================================================================
