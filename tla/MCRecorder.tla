------------------------------ MODULE MCRecorder ------------------------------
(* Values for the recorder and the stream beside it. *)
EXTENDS Recording

\* Both kinds of venue.
BothVenues == {"binance", "okx"}
=============================================================================
