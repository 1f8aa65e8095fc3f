------------------------------- MODULE MCOta -------------------------------
\* Ota with four releases whose order by number and by string differ.
EXTENDS Ota

MCReleases == << <<0, 9, 0>>, <<1, 0, 0>>, <<1, 9, 0>>, <<1, 10, 0>> >>
=============================================================================
