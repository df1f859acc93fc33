----------------------------- MODULE MCRateControl -----------------------------
EXTENDS RateControl

Encoder(ms, max, clamps, auto, adapts) ==
  [ptime |-> ms, maxptime |-> max, clamps |-> clamps, auto |-> auto, adapts |-> adapts]

\* Encoders of 20, 30 and 25 ms, the first without a bitrate to set; one that clamps
\* its ptime and one that refuses a large one; one that manages its ptime itself.
TestEncoders ==
  { Encoder(20, 120, TRUE, FALSE, FALSE), Encoder(30, 120, TRUE, FALSE, TRUE),
    Encoder(25, 120, TRUE, FALSE, TRUE), Encoder(20, 30, TRUE, FALSE, TRUE),
    Encoder(20, 30, FALSE, FALSE, TRUE), Encoder(20, 120, TRUE, TRUE, TRUE) }

================================================================================
