----------------------------- MODULE MCScanner -----------------------------
\* Values for the constants of Scanner (see the .cfg files).
EXTENDS Scanner

=============================================================================
