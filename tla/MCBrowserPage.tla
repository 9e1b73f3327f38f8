--------------------------- MODULE MCBrowserPage ----------------------------
EXTENDS BrowserPage

=============================================================================
