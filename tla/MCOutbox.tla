------------------------------ MODULE MCOutbox ------------------------------
EXTENDS Outbox, TLC

CONSTANTS report, created, trigger

\* A citizen report stages two events in one transaction.
MCStaged == report :> <<created, trigger>>
=============================================================================
