--------------------------- MODULE MCCommandBundle ---------------------------
EXTENDS CommandBundle, CommandPackages

MCCommands == Packages
=============================================================================
