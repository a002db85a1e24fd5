---------------------------- MODULE MCSDKWaveform ----------------------------
EXTENDS SDKWaveform, TLC

\* A time before the beginning, one off the grid, and one that is a marker's duration
\* after 4 and more than a word holds after 0.
SomeTimes == {-4, 0, 4, 6, 16}

\* The number of a channel is only its place in the state.
Symmetry == Permutations(Channels)
=============================================================================
