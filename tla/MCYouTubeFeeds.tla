---------------------------- MODULE MCYouTubeFeeds ----------------------------
(* YouTubeFeeds for TLC: playlists from empty to two full pages and more.    *)
EXTENDS YouTubeFeeds

SmallSources == {<<>>, <<3, 2, 1>>, <<1, 4, 2, 3>>}
===============================================================================
