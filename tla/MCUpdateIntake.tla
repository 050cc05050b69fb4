---------------------------- MODULE MCUpdateIntake ----------------------------
EXTENDS UpdateIntake

\* Sequences with every kind that may be taken in without a loss.  With four
\* events, three updates meet one trouble, two meet two, and one alone three.
KindsTried == {<<"message", "message", "stop">>, <<"photo", "message", "photo">>,
               <<"approval", "unaddressed">>, <<"stop", "message">>, <<"button">>, <<"group">>}

\* An album of a group that is not addressed to the bot, with a private message
\* between its photos.
GroupAlbum == {<<"group photo", "message", "group photo">>}
=============================================================================
